---- MODULE Spec2Model ----
(***************************************************************************)
(* Model of the notification template preview of vintasend-ts-dashboard:   *)
(* the GitHub template client with its bounded content cache, the          *)
(* repository and path normalisers, the environment configuration and the  *)
(* fetchNotificationPreview server action.                                 *)
(*                                                                         *)
(* JavaScript strings are sequences of one-character strings, so that the  *)
(* regular expressions of the source are computed character by character. *)
(* An optional string (string | undefined) is a record [def, val].         *)
(***************************************************************************)
EXTENDS Integers, Sequences, FiniteSets, TLC

VARIABLES
    pathIn,        \* SpecPath: the templatePath argument of resolveTemplatePath
    baseIn,        \* SpecPath: options.templatesBasePath (optional string)
    pathOut,       \* SpecPath: outcome of resolveTemplatePath, or NotRun
    repoIn,        \* SpecRepo: the repo argument of normalizeRepo
    repoOut,       \* SpecRepo: outcome of normalizeRepo, or NotRun
    config,        \* Spec: the client's GitHubTemplatePreviewConfig
    cacheMaxEntries, \* Spec: the client's cacheMaxEntries
    cache,         \* Spec: the client's Map, as its entries in insertion order
    calls,         \* Spec: the getTemplateContentByCommit calls, by caller
    netCalls,      \* Spec: number of times the fetcher was invoked
    prev,          \* Spec: the request and outcome of the call that settled last
    last,          \* Spec: the settlement made by the last step, if it made one
    hist,          \* Spec: the keys written by setCache, in order
    env,           \* SpecPreview: process.env
    notification,  \* SpecPreview: the notification the backend stores
    preview,       \* SpecPreview: the running call of fetchNotificationPreview
    previews,      \* SpecPreview: number of calls that have returned
    previousPreview, \* SpecPreview: what the call that returned last did
    stored,        \* SpecCancel: the notification the backend stores
    cancels,       \* SpecCancel: the cancelNotification calls, by caller
    cancelLog,     \* SpecCancel: the stored status at each backend cancel
    cancelCalls,   \* SpecCancel: number of cancelNotification calls made
    matching,      \* SpecList: the rows the backend query matches, in order
    listing,       \* SpecList: the running call of a fetch action
    fetches,       \* SpecList: number of fetch calls that have returned
    proxied,       \* SpecProxy: the request the proxy receives
    response,      \* SpecProxy: the response of the proxy, or NoResponse
    queryIn,       \* SpecQuery: the filters of fetchNotifications and the
                   \* capabilities the backend reports
    queryOut,      \* SpecQuery: the arguments of filterNotifications, or NotCalled
    searchParams,  \* SpecPage: the URL search params of the notifications page
    pageData,      \* SpecPage: the data state of NotificationsPageClient
    inFlight,      \* SpecPage: the server action calls that have not settled
    issued,        \* SpecPage: number of server action calls made
    latest,        \* SpecPage: the fetchNotifications call made last
    failed,        \* SpecPage: whether a server action call has failed
    filterState,   \* SpecDebounce: the useState values of NotificationsFilters
    timers,        \* SpecDebounce: the timeouts that are set and not cleared
    debounceTimerRef, \* SpecDebounce: debounceTimerRef.current, 0 for null
    delivered,     \* SpecDebounce: the onFiltersChange calls made, in order
    changes,       \* SpecDebounce: number of input changes made
    lastEvent      \* SpecDebounce: the kind of the event handled last

pathVars == <<pathIn, baseIn, pathOut>>

repoVars == <<repoIn, repoOut>>

clientVars ==
    <<config, cacheMaxEntries, cache, calls, netCalls, prev, last, hist>>

previewVars ==
    <<env, notification, preview, previews, previousPreview>>

cancelVars == <<stored, cancels, cancelLog, cancelCalls>>

listVars == <<matching, listing, fetches>>

proxyVars == <<proxied, response>>

queryVars == <<queryIn, queryOut>>

pageVars == <<searchParams, pageData, inFlight, issued, latest, failed>>

debounceVars ==
    <<filterState, timers, debounceTimerRef, delivered, changes, lastEvent>>

uiVars == <<queryVars, pageVars, debounceVars>>

dashVars == <<cancelVars, listVars, proxyVars, uiVars>>

vars == <<pathVars, repoVars, clientVars, previewVars, dashVars>>

(***************************************************************************)
(* Bounds                                                                  *)
(***************************************************************************)
MaxPathLen == 4

MaxRepoChunks == 5

\* largest configured cacheMaxEntries
MaxCapacity == 2

\* number of fetcher invocations after which no further call is made
MaxCalls == 3

\* number of fetchNotificationPreview calls
MaxPreviews == 2

(***************************************************************************)
(* Strings                                                                 *)
(***************************************************************************)
Undefined == [def |-> FALSE, val |-> <<>>]

\* an absent header, or an absent text field of a JSON body
Absent == [def |-> FALSE, val |-> ""]

\* an absent numeric option
NoOption == [def |-> FALSE, val |-> 0]

Some(s) == [def |-> TRUE, val |-> s]

\* all strings over alphabet of length at most n
StringsUpTo(alphabet, n) == UNION {[1..k -> alphabet] : k \in 0..n}

\* s.replace(/^X+/, '') for the characters X of a class
StripLeading(s, class) ==
    LET n == CHOOSE k \in 0..Len(s) :
                /\ \A i \in 1..k : s[i] \in class
                /\ k = Len(s) \/ s[k + 1] \notin class
    IN  SubSeq(s, n + 1, Len(s))

\* s.replace(/X+$/, '') for the characters X of a class
StripTrailing(s, class) ==
    LET n == CHOOSE k \in 0..Len(s) :
                /\ \A i \in (Len(s) - k + 1)..Len(s) : s[i] \in class
                /\ k = Len(s) \/ s[Len(s) - k] \notin class
    IN  SubSeq(s, 1, Len(s) - n)

\* String.prototype.trim (the space is the one white-space character of the
\* alphabets used)
Trim(s) == StripTrailing(StripLeading(s, {" "}), {" "})

\* s.endsWith(suffix)
EndsWith(s, suffix) ==
    /\ Len(s) >= Len(suffix)
    /\ SubSeq(s, Len(s) - Len(suffix) + 1, Len(s)) = suffix

\* s.startsWith(prefix)
StartsWith(s, prefix) ==
    /\ Len(s) >= Len(prefix)
    /\ SubSeq(s, 1, Len(prefix)) = prefix

(***************************************************************************)
(* template-path-resolver.ts                                               *)
(***************************************************************************)
PathAlphabet == {"a", "/", " "}

\* an Error's message: the parts of the template literal that builds it
Message(text) == <<text>>

\* the one-sided variant a missing alternative of the regular expression gives
trimPathEdgesLeadingOnly(path) == StripLeading(path, {"/"})

\* path.replace(/^\/+|\/+$/g, '')
trimPathEdges(path) == StripTrailing(StripLeading(path, {"/"}), {"/"})

\* outcome of a call: a returned value or a thrown Error's message
Returned(v) == [ok |-> TRUE, value |-> v, message |-> <<>>]

Thrown(m) == [ok |-> FALSE, value |-> <<>>, message |-> m]

\* the outcome of a call that has not been made
NotRun == [ok |-> FALSE, value |-> <<>>, message |-> Message("not run")]

\* a resolver that tests the template path for emptiness before the slashes
\* are removed
resolveTemplatePathTrimOnly(templatePath, templatesBasePath) ==
    LET cleanedTemplatePath == trimPathEdges(Trim(templatePath))
        cleanedBasePath ==
            IF templatesBasePath.def /\ templatesBasePath.val # <<>>
            THEN trimPathEdges(Trim(templatesBasePath.val))
            ELSE <<>>
    IN  IF Trim(templatePath) = <<>>
        THEN Thrown(Message("Template path is required for preview rendering."))
        ELSE IF cleanedBasePath = <<>>
             THEN Returned(cleanedTemplatePath)
             ELSE Returned(cleanedBasePath \o <<"/">> \o cleanedTemplatePath)

resolveTemplatePath(templatePath, templatesBasePath) ==
    LET cleanedTemplatePath == trimPathEdges(Trim(templatePath))
        cleanedBasePath ==
            IF templatesBasePath.def /\ templatesBasePath.val # <<>>
            THEN trimPathEdges(Trim(templatesBasePath.val))
            ELSE <<>>
    IN  IF cleanedTemplatePath = <<>>
        THEN Thrown(Message("Template path is required for preview rendering."))
        ELSE IF cleanedBasePath = <<>>
             THEN Returned(cleanedTemplatePath)
             ELSE Returned(cleanedBasePath \o <<"/">> \o cleanedTemplatePath)

(***************************************************************************)
(* github-template-preview-config.ts: normalizeRepo                        *)
(***************************************************************************)
DotGit == <<".", "g", "i", "t">>

GitAt == <<"g", "i", "t", "@">>

HttpScheme == <<"h", "t", "t", "p", ":", "/", "/">>

HttpsScheme == <<"h", "t", "t", "p", "s", ":", "/", "/">>

\* the letters of the alphabets used that have an upper-case form
LowerChar(c) ==
    CASE c = "H" -> "h"
      [] c = "T" -> "t"
      [] c = "P" -> "p"
      [] c = "S" -> "s"
      [] OTHER -> c

Lower(s) == [i \in 1..Len(s) |-> LowerChar(s[i])]

Contains(s, c) == \E i \in 1..Len(s) : s[i] = c

\* position of the first c in s, 0 when there is none
IndexOf(s, c) ==
    IF Contains(s, c)
    THEN CHOOSE i \in 1..Len(s) : s[i] = c /\ \A j \in 1..(i - 1) : s[j] # c
    ELSE 0

\* position of the last c in s, 0 when there is none
LastIndexOf(s, c) ==
    IF Contains(s, c)
    THEN CHOOSE i \in 1..Len(s) : s[i] = c /\ \A j \in (i + 1)..Len(s) : s[j] # c
    ELSE 0

\* s.replace(/\.git$/, '')
StripDotGit(s) ==
    IF EndsWith(s, DotGit) THEN SubSeq(s, 1, Len(s) - Len(DotGit)) ELSE s

\* s.split('/')
RECURSIVE SplitOnSlash(_)
SplitOnSlash(s) ==
    LET i == IndexOf(s, "/")
    IN  IF i = 0
        THEN <<s>>
        ELSE <<SubSeq(s, 1, i - 1)>> \o SplitOnSlash(SubSeq(s, i + 1, Len(s)))

\* segments.filter(Boolean)
RECURSIVE FilterNonEmpty(_)
FilterNonEmpty(segments) ==
    IF segments = <<>>
    THEN <<>>
    ELSE IF Head(segments) = <<>>
         THEN FilterNonEmpty(Tail(segments))
         ELSE <<Head(segments)>> \o FilterNonEmpty(Tail(segments))

\* the URL parser's percent-encoding of a path (of the alphabets used, the
\* space is the one character of the path percent-encode set)
RECURSIVE PercentEncodePath(_)
PercentEncodePath(s) ==
    IF s = <<>>
    THEN <<>>
    ELSE (IF Head(s) = " " THEN <<"%", "2", "0">> ELSE <<Head(s)>>)
            \o PercentEncodePath(Tail(s))

IsDigit(c) == c \in {"0", "1", "2", "3", "4", "5", "6", "7", "8", "9"}

\* /^https?:\/\//i.test(s)
IsHttpUrl(s) ==
    StartsWith(Lower(s), HttpScheme) \/ StartsWith(Lower(s), HttpsScheme)

\* new URL(s) for an http(s) URL, by the URL Standard: white space is dropped
\* at both ends, the slashes after the scheme are skipped, the authority runs
\* to the next slash, credentials end at its last "@", the host must be
\* non-empty without a forbidden code point, the port must be digits.
\* [ok, pathname]; ok is FALSE where the constructor throws.
\* The parser's states follow, last first.
UrlOfHostPortPath(host, port, path) ==
    IF \/ host = <<>>
       \/ Contains(host, " ")
       \/ \E i \in 1..Len(port) : ~IsDigit(port[i])
    THEN [ok |-> FALSE, pathname |-> <<>>]
    ELSE [ok |-> TRUE, pathname |-> PercentEncodePath(path)]

\* host state: the host runs to the first ":"
UrlOfHostPort(hostPort, colon, path) ==
    UrlOfHostPortPath(
        IF colon = 0 THEN hostPort ELSE SubSeq(hostPort, 1, colon - 1),
        IF colon = 0 THEN <<>> ELSE SubSeq(hostPort, colon + 1, Len(hostPort)),
        path)

\* authority state: the credentials end at the last "@"
UrlOfAuthority(authority, at, path) ==
    UrlOfHostPort(SubSeq(authority, at + 1, Len(authority)),
                  IndexOf(SubSeq(authority, at + 1, Len(authority)), ":"),
                  path)

\* the authority runs to the first slash, the path starts there
UrlOfRest(rest, slash) ==
    UrlOfAuthority(
        IF slash = 0 THEN rest ELSE SubSeq(rest, 1, slash - 1),
        LastIndexOf(IF slash = 0 THEN rest ELSE SubSeq(rest, 1, slash - 1), "@"),
        IF slash = 0 THEN <<"/">> ELSE SubSeq(rest, slash, Len(rest)))

\* special authority slashes state: the slashes after the scheme are skipped
UrlOfTrimmed(t, schemeLen) ==
    UrlOfRest(StripLeading(SubSeq(t, schemeLen + 1, Len(t)), {"/"}),
              IndexOf(StripLeading(SubSeq(t, schemeLen + 1, Len(t)), {"/"}), "/"))

ParseUrl(s) == UrlOfTrimmed(Trim(s), IndexOf(Trim(s), ":"))

\* [^/\s]+ matches the whole of s
IsRepoPart(s) == s # <<>> /\ ~Contains(s, "/") /\ ~Contains(s, " ")

\* s.match(/^([^/\s]+)\/([^/\s]+)$/): [matched, g1, g2]
MatchOwnerName(s) ==
    LET i == IndexOf(s, "/")
        g1 == SubSeq(s, 1, i - 1)
        g2 == SubSeq(s, i + 1, Len(s))
    IN  IF i # 0 /\ IsRepoPart(g1) /\ IsRepoPart(g2)
        THEN [matched |-> TRUE, g1 |-> g1, g2 |-> g2]
        ELSE [matched |-> FALSE, g1 |-> <<>>, g2 |-> <<>>]

\* s.match(/^git@[^:]+:([^/\s]+)\/([^/\s]+)$/): [matched, g1, g2]
MatchSsh(s) ==
    LET rest == SubSeq(s, Len(GitAt) + 1, Len(s))
        colon == IndexOf(rest, ":")
    IN  IF StartsWith(s, GitAt) /\ colon >= 2
        THEN MatchOwnerName(SubSeq(rest, colon + 1, Len(rest)))
        ELSE [matched |-> FALSE, g1 |-> <<>>, g2 |-> <<>>]

\* lines 26-31: the path segments of the URL give the owner and the name
repoOfSegments(segments) ==
    IF Len(segments) < 2
    THEN Thrown(Message("GITHUB_REPO URL must include owner and repository name."))
    ELSE Returned(segments[1] \o <<"/">> \o segments[2])

\* lines 18-31: the URL form (new URL, then the segments)
repoOfUrl(parsedUrl) ==
    IF ~parsedUrl.ok
    THEN Thrown(Message("GITHUB_REPO must be a valid GitHub repository URL or owner/repo."))
    ELSE repoOfSegments(FilterNonEmpty(SplitOnSlash(parsedUrl.pathname)))

\* lines 34-46: the SSH form and the owner/name form
repoOfMatches(sshMatch, directMatch) ==
    IF sshMatch.matched
    THEN Returned(sshMatch.g1 \o <<"/">> \o StripDotGit(sshMatch.g2))
    ELSE IF directMatch.matched
         THEN Returned(directMatch.g1 \o <<"/">> \o directMatch.g2)
         ELSE Thrown(Message(
                "GITHUB_REPO is required in owner/repo format or as a GitHub repository URL."))

\* lines 17-46: trimmedRepo in hand
repoOfTrimmed(trimmedRepo) ==
    IF IsHttpUrl(trimmedRepo)
    THEN repoOfUrl(ParseUrl(trimmedRepo))
    ELSE repoOfMatches(MatchSsh(trimmedRepo), MatchOwnerName(trimmedRepo))

normalizeRepo(repo) == repoOfTrimmed(StripDotGit(Trim(repo)))

(***************************************************************************)
(* github-template-client.ts: GitHubTemplateClient                         *)
(***************************************************************************)
DefaultCacheMaxEntries == 100

\* constructor: options.cacheMaxEntries ?? 100
constructorCacheMaxEntries(option) ==
    IF option.def THEN option.val ELSE DefaultCacheMaxEntries

\* `${this.config.repo}:${path}:${gitCommitSha}`
buildCacheKey(repo, path, gitCommitSha) ==
    repo \o <<":">> \o path \o <<":">> \o gitCommitSha

\* Map.prototype.has
MapHas(m, key) == \E i \in 1..Len(m) : m[i].key = key

\* Map.prototype.get: the value, undefined when the key is absent
MapGet(m, key) ==
    IF MapHas(m, key)
    THEN Some((CHOOSE e \in {m[i] : i \in 1..Len(m)} : e.key = key).value)
    ELSE Undefined

\* Map.prototype.delete
MapDelete(m, key) == SelectSeq(m, LAMBDA e : e.key # key)

\* Map.prototype.set: a present key keeps its position, a new key goes last
MapSet(m, key, value) ==
    IF MapHas(m, key)
    THEN [i \in 1..Len(m) |->
            IF m[i].key = key THEN [key |-> key, value |-> value] ELSE m[i]]
    ELSE Append(m, [key |-> key, value |-> value])

\* a cache whose reads refresh the entry (least-recently-used order)
cacheAfterGetRefreshing(m, key) ==
    IF MapHas(m, key)
    THEN Append(MapDelete(m, key), [key |-> key, value |-> MapGet(m, key).val])
    ELSE m

\* the Map after this.cache.get(cacheKey): a read leaves it as it is
cacheAfterGet(m, key) == m

\* a hit test on truthiness: if (fromCache)
isCacheHitTruthy(fromCache) == fromCache.def /\ fromCache.val # <<>>

\* fromCache !== undefined
isCacheHit(fromCache) == fromCache.def

\* the while loop of setCache
RECURSIVE evictWhileOver(_, _)
evictWhileOver(m, max) ==
    IF Len(m) > max
    THEN LET firstKey == IF m = <<>> THEN Undefined ELSE Some(m[1].key)
         IN  IF ~firstKey.def \/ firstKey.val = <<>>
             THEN m
             ELSE evictWhileOver(MapDelete(m, firstKey.val), max)
    ELSE m

\* setCache with the size test off by one: while (size > max + 1)
setCacheOffByOne(m, max, key, value) ==
    evictWhileOver(
        MapSet(IF MapHas(m, key) THEN MapDelete(m, key) ELSE m, key, value),
        max + 1)

\* setCache evicting the newest entry instead of the oldest
setCacheEvictNewest(m, max, key, value) ==
    LET set == MapSet(IF MapHas(m, key) THEN MapDelete(m, key) ELSE m, key, value)
    IN  IF Len(set) > max THEN SubSeq(set, 1, max) ELSE set

\* setCache adding the entry without removing a prior entry of the key
setCacheAppending(m, max, key, value) ==
    evictWhileOver(Append(m, [key |-> key, value |-> value]), max)

\* setCache without the delete of lines 127-129: a present key keeps its place
setCacheInPlace(m, max, key, value) == evictWhileOver(MapSet(m, key, value), max)

setCache(m, max, key, value) ==
    evictWhileOver(
        MapSet(IF MapHas(m, key) THEN MapDelete(m, key) ELSE m, key, value),
        max)

\* content.replace(/\n/g, '')
StripNewlines(s) == SelectSeq(s, LAMBDA c : c # "\n")

\* the value of a character of the base64 alphabet (those the contents use)
Base64Index(c) ==
    CASE c = "E" -> 4
      [] c = "Q" -> 16
      [] c = "W" -> 22
      [] c = "Y" -> 24
      [] OTHER -> 0

\* the bytes of a sequence of 6-bit values, four values to three bytes
RECURSIVE SextetsToBytes(_)
SextetsToBytes(sx) ==
    IF Len(sx) < 2
    THEN <<>>
    ELSE <<sx[1] * 4 + sx[2] \div 16>>
         \o (IF Len(sx) >= 3 THEN <<(sx[2] % 16) * 16 + sx[3] \div 4>> ELSE <<>>)
         \o (IF Len(sx) >= 4
             THEN <<(sx[3] % 4) * 64 + sx[4]>> \o SextetsToBytes(SubSeq(sx, 5, Len(sx)))
             ELSE <<>>)

\* Buffer.from(s, 'base64'): the characters before the padding, decoded
Base64Decode(s) ==
    LET pad == IndexOf(s, "=")
        data == IF pad = 0 THEN s ELSE SubSeq(s, 1, pad - 1)
    IN  SextetsToBytes([i \in 1..Len(data) |-> Base64Index(data[i])])

\* buffer.toString('utf8') (of the bytes the contents decode to)
Utf8ToString(bytes) ==
    [i \in 1..Len(bytes) |-> IF bytes[i] = 97 THEN "a" ELSE "?"]

\* Buffer.from(content.replace(/\n/g, ''), 'base64').toString('utf8')
decodeContent(content) == Utf8ToString(Base64Decode(StripNewlines(content)))

TemplateNotFound ==
    Message("Template file was not found in GitHub for the requested commit.")

RateLimitExceeded ==
    Message("GitHub API rate limit exceeded while fetching template preview.")

RequestForbidden ==
    Message("GitHub API request was forbidden. Check repository access and token permissions.")

InvalidResponse ==
    Message("GitHub template response is invalid or unsupported.")

FetchFailedPrefix == "GitHub template fetch failed with status "

\* the rejection of the fetcher itself (no response)
TransportError == Message("fetch failed")

\* the rejection of response.json() on a body that is not JSON
JsonSyntaxError == Message("Unexpected token in JSON")

\* a response body: whether it parses as JSON, and the fields read from it.
\* content is a string of characters, message a plain string.
NoBody ==
    [parsed |-> FALSE, content |-> Undefined, encoding |-> Absent,
     message |-> Absent]

ContentBody(content, encoding) ==
    [parsed |-> TRUE, content |-> content, encoding |-> encoding,
     message |-> Absent]

MessageBody(message) ==
    [parsed |-> TRUE, content |-> Undefined, encoding |-> Absent,
     message |-> message]

\* response.ok
IsOk(status) == status \in 200..299

\* the statuses buildHttpError answers without reading the body
ClassifiedWithoutBody(status) == status \in {404, 403, 429}

\* buildHttpError with the 403 test ignoring x-ratelimit-remaining
buildHttpErrorIgnoringHeader(status, remaining, body) ==
    IF status = 404 THEN TemplateNotFound
    ELSE IF status = 403 THEN RequestForbidden
    ELSE IF status = 429 THEN RateLimitExceeded
    ELSE <<FetchFailedPrefix, ToString(status)>>
            \o (IF body.parsed /\ body.message.def /\ body.message.val # ""
                THEN <<": ", body.message.val>>
                ELSE <<>>)

buildHttpError(status, remaining, body) ==
    IF status = 404 THEN TemplateNotFound
    ELSE IF status = 403
         THEN IF remaining = Some("0") THEN RateLimitExceeded ELSE RequestForbidden
    ELSE IF status = 429 THEN RateLimitExceeded
    ELSE <<FetchFailedPrefix, ToString(status)>>
            \o (IF body.parsed /\ body.message.def /\ body.message.val # ""
                THEN <<": ", body.message.val>>
                ELSE <<>>)

\* lines 73-81 of getTemplateContentByCommit: the outcome for a parsed payload
contentOutcome(payload) ==
    IF \/ ~payload.content.def
       \/ payload.content.val = <<>>
       \/ payload.encoding # Some("base64")
    THEN Thrown(InvalidResponse)
    ELSE Returned(decodeContent(payload.content.val))

(***************************************************************************)
(* github-template-preview-config.ts: getGitHubTemplatePreviewConfigFromEnv *)
(***************************************************************************)
DefaultGitHubApiBaseUrl ==
    HttpsScheme \o <<"a", "p", "i", ".", "g", "i", "t", "h", "u", "b", ".", "c", "o", "m">>

\* url.replace(/\/+$/, '')
normalizeBaseUrl(url) == StripTrailing(url, {"/"})

\* process.env.X?.trim()
TrimOptional(v) == IF v.def THEN Some(Trim(v.val)) ELSE Undefined

\* !v for an optional string
Falsy(v) == ~v.def \/ v.val = <<>>

NoConfig ==
    [repo |-> <<>>, apiKey |-> <<>>, apiBaseUrl |-> <<>>, templatesBasePath |-> Undefined]

\* [ok, config, message]: the configuration, or the message of the Error thrown
getGitHubTemplatePreviewConfigFromEnv(e) ==
    LET repo == TrimOptional(e.GITHUB_REPO)
        apiKey == TrimOptional(e.GITHUB_API_KEY)
        apiBaseUrl ==
            Trim(IF Falsy(e.GITHUB_API_BASE_URL)
                 THEN DefaultGitHubApiBaseUrl
                 ELSE e.GITHUB_API_BASE_URL.val)
        templatesBasePath == TrimOptional(e.GITHUB_TEMPLATES_BASE_PATH)
        normalized == normalizeRepo(repo.val)
    IN  IF Falsy(repo)
        THEN [ok |-> FALSE, config |-> NoConfig,
              message |-> Message("GITHUB_REPO is required (owner/repo).")]
        ELSE IF Falsy(apiKey)
             THEN [ok |-> FALSE, config |-> NoConfig,
                   message |-> Message("GITHUB_API_KEY is required for template preview.")]
             ELSE IF ~normalized.ok
                  THEN [ok |-> FALSE, config |-> NoConfig, message |-> normalized.message]
                  ELSE [ok |-> TRUE, message |-> <<>>,
                        config |-> [repo |-> normalized.value,
                                    apiKey |-> apiKey.val,
                                    apiBaseUrl |-> normalizeBaseUrl(apiBaseUrl),
                                    templatesBasePath |-> templatesBasePath]]

NoClient ==
    [exists |-> FALSE, config |-> NoConfig, cacheMaxEntries |-> 0, cache |-> <<>>]

\* createGitHubTemplateClientFromEnv(options): [ok, client, message]; the
\* client is constructed with an empty cache
createGitHubTemplateClientFromEnv(e, option) ==
    LET fromEnv == getGitHubTemplatePreviewConfigFromEnv(e)
    IN  IF ~fromEnv.ok
        THEN [ok |-> FALSE, client |-> NoClient, message |-> fromEnv.message]
        ELSE [ok |-> TRUE, message |-> <<>>,
              client |-> [exists |-> TRUE, config |-> fromEnv.config,
                          cacheMaxEntries |-> constructorCacheMaxEntries(option),
                          cache |-> <<>>]]

\* process.env, the four variables the preview reads
Env(repo, apiKey, apiBaseUrl, templatesBasePath) ==
    [GITHUB_REPO |-> repo, GITHUB_API_KEY |-> apiKey,
     GITHUB_API_BASE_URL |-> apiBaseUrl,
     GITHUB_TEMPLATES_BASE_PATH |-> templatesBasePath]

\* buildCommitLookupHttpError with the 403 test ignoring x-ratelimit-remaining
buildCommitLookupHttpErrorIgnoringHeader(status, remaining, body) ==
    IF status = 404 THEN Message("Unable to resolve latest commit SHA from the main branch.")
    ELSE IF status = 403 THEN RequestForbidden
    ELSE IF status = 429 THEN RateLimitExceeded
    ELSE <<"GitHub main branch commit lookup failed with status ", ToString(status)>>
            \o (IF body.parsed /\ body.message.def /\ body.message.val # ""
                THEN <<": ", body.message.val>>
                ELSE <<>>)

\* buildCommitLookupHttpError without the message of the body
buildCommitLookupHttpErrorWithoutSuffix(status, remaining, body) ==
    IF status = 404 THEN Message("Unable to resolve latest commit SHA from the main branch.")
    ELSE IF status = 403
         THEN IF remaining = Some("0") THEN RateLimitExceeded ELSE RequestForbidden
    ELSE IF status = 429 THEN RateLimitExceeded
    ELSE <<"GitHub main branch commit lookup failed with status ", ToString(status)>>

(***************************************************************************)
(* github-template-client.ts: getLatestMainCommitSha                       *)
(***************************************************************************)
buildCommitLookupHttpError(status, remaining, body) ==
    IF status = 404 THEN Message("Unable to resolve latest commit SHA from the main branch.")
    ELSE IF status = 403
         THEN IF remaining = Some("0") THEN RateLimitExceeded ELSE RequestForbidden
    ELSE IF status = 429 THEN RateLimitExceeded
    ELSE <<"GitHub main branch commit lookup failed with status ", ToString(status)>>
            \o (IF body.parsed /\ body.message.def /\ body.message.val # ""
                THEN <<": ", body.message.val>>
                ELSE <<>>)

\* GitHubCommitResponse: the parsed JSON body of the commit lookup
CommitBody(sha) == [parsed |-> TRUE, sha |-> sha, message |-> Absent]

\* lines 96-101 of getLatestMainCommitSha: the outcome for a parsed payload
commitOutcome(payload) ==
    IF Falsy(payload.sha)
    THEN Thrown(Message("GitHub main branch commit lookup returned an invalid response."))
    ELSE Returned(payload.sha.val)

(***************************************************************************)
(* actions.ts: fetchNotificationPreview                                    *)
(***************************************************************************)
NotificationId == "n1"

NoResult == [state |-> "none", message |-> <<>>, gitCommitSha |-> Undefined]

ErrorResult(message) ==
    [state |-> "error", message |-> message, gitCommitSha |-> Undefined]

IdlePreview ==
    [pc |-> "idle", client |-> NoClient, sha |-> Undefined, part |-> "none",
     cacheKey |-> <<>>, status |-> 0, remaining |-> Absent,
     body |-> Undefined, subject |-> Undefined,
     contentRequests |-> 0, commitLookups |-> 0, result |-> NoResult]

\* what the caller keeps of a call that returned
NoPreview == [state |-> "none", contentRequests |-> 0, commitLookups |-> 0]

\* no call of cancelNotification is made
NoCancelRun ==
    /\ stored = <<>>
    /\ cancels = <<>>
    /\ cancelLog = <<>>
    /\ cancelCalls = 0

\* no call of a list fetch action is made
NoListRun ==
    /\ matching = <<>>
    /\ listing = <<>>
    /\ fetches = 0

\* no request is proxied
NoProxyRun ==
    /\ proxied = <<>>
    /\ response = <<>>

\* fetchNotifications builds no backend query
NoQueryRun ==
    /\ queryIn = <<>>
    /\ queryOut = <<>>

\* no notifications page is open
NoPageRun ==
    /\ searchParams = <<>>
    /\ pageData = <<>>
    /\ inFlight = {}
    /\ issued = 0
    /\ latest = <<>>
    /\ failed = FALSE

\* no filter bar is mounted
NoDebounceRun ==
    /\ filterState = <<>>
    /\ timers = {}
    /\ debounceTimerRef = 0
    /\ delivered = <<>>
    /\ changes = 0
    /\ lastEvent = "none"

NoUiRun == NoQueryRun /\ NoPageRun /\ NoDebounceRun

NoDashboardRun == NoCancelRun /\ NoListRun /\ NoProxyRun /\ NoUiRun

\* no call of fetchNotificationPreview is made
NoPreviewRun ==
    /\ env = Env(Undefined, Undefined, Undefined, Undefined)
    /\ notification = <<>>
    /\ preview = IdlePreview
    /\ previews = 0
    /\ previousPreview = NoPreview

\* an action without its catch block: the promise rejects
FailRejecting(p, message) ==
    [p EXCEPT !.pc = "done",
              !.result = [state |-> "rejected", message |-> message,
                          gitCommitSha |-> Undefined]]

\* the catch block: the preview resolves with the error state
Fail(p, message) == [p EXCEPT !.pc = "done", !.result = ErrorResult(message)]

\* lines 321-343: the subject template content is in hand; the render is awaited
GotSubject(p, content) == [p EXCEPT !.subject = Some(content), !.pc = "render"]

\* BeginSubject with the subject template asked for at the head of main
\* instead of the commit of the body template
BeginSubjectAtMain(p) ==
    LET resolvedPath ==
            resolveTemplatePath(notification.subjectTemplate.val,
                                p.client.config.templatesBasePath)
        cacheKey == buildCacheKey(p.client.config.repo, resolvedPath.value, <<"m">>)
        fromCache == MapGet(p.client.cache, cacheKey)
    IN  IF ~resolvedPath.ok THEN Fail(p, resolvedPath.message)
        ELSE IF isCacheHit(fromCache)
             THEN GotSubject(
                      [p EXCEPT !.client.cache = cacheAfterGet(p.client.cache, cacheKey)],
                      fromCache.val)
             ELSE [p EXCEPT !.pc = "contentFetch", !.part = "subject",
                            !.cacheKey = cacheKey,
                            !.contentRequests = @ + 1]

\* getTemplateContentByCommit for the subject template, up to its first await
BeginSubject(p) ==
    LET resolvedPath ==
            resolveTemplatePath(notification.subjectTemplate.val,
                                p.client.config.templatesBasePath)
        cacheKey == buildCacheKey(p.client.config.repo, resolvedPath.value, p.sha.val)
        fromCache == MapGet(p.client.cache, cacheKey)
    IN  IF ~resolvedPath.ok THEN Fail(p, resolvedPath.message)
        ELSE IF isCacheHit(fromCache)
             THEN GotSubject(
                      [p EXCEPT !.client.cache = cacheAfterGet(p.client.cache, cacheKey)],
                      fromCache.val)
             ELSE [p EXCEPT !.pc = "contentFetch", !.part = "subject",
                            !.cacheKey = cacheKey,
                            !.contentRequests = @ + 1]

\* lines 321-327: the body template content is in hand; the subject template
\* is fetched when the notification has one
GotBody(p, content) ==
    LET q == [p EXCEPT !.body = Some(content)]
    IN  IF Falsy(notification.subjectTemplate)
        THEN [q EXCEPT !.pc = "render"]
        ELSE BeginSubject(q)

\* getTemplateContentByCommit for the body template, up to its first await
BeginBody(p) ==
    LET resolvedPath ==
            resolveTemplatePath(notification.bodyTemplate,
                                p.client.config.templatesBasePath)
        cacheKey == buildCacheKey(p.client.config.repo, resolvedPath.value, p.sha.val)
        fromCache == MapGet(p.client.cache, cacheKey)
    IN  IF ~resolvedPath.ok THEN Fail(p, resolvedPath.message)
        ELSE IF isCacheHit(fromCache)
             THEN GotBody(
                      [p EXCEPT !.client.cache = cacheAfterGet(p.client.cache, cacheKey)],
                      fromCache.val)
             ELSE [p EXCEPT !.pc = "contentFetch", !.part = "body",
                            !.cacheKey = cacheKey,
                            !.contentRequests = @ + 1]

\* lines 300-319 with the status test of line 304 left out: the latest main
\* commit is looked up for every notification without a stored commit
NotificationFoundAnyStatus(p) ==
    LET made == createGitHubTemplateClientFromEnv(env, NoOption)
        q == [p EXCEPT !.client = made.client, !.sha = notification.gitCommitSha]
    IN  IF ~made.ok THEN Fail(p, made.message)
        ELSE IF Falsy(notification.gitCommitSha)
             THEN [q EXCEPT !.pc = "latestFetch", !.commitLookups = @ + 1]
             ELSE BeginBody(q)

\* lines 300-319: the notification is in hand; the client is made, the commit
\* is chosen, and the body template is requested
NotificationFound(p) ==
    LET made == createGitHubTemplateClientFromEnv(env, NoOption)
        q == [p EXCEPT !.client = made.client, !.sha = notification.gitCommitSha]
    IN  IF ~made.ok THEN Fail(p, made.message)
        ELSE IF Falsy(notification.gitCommitSha) /\ notification.status = "PENDING_SEND"
             THEN [q EXCEPT !.pc = "latestFetch", !.commitLookups = @ + 1]
             ELSE IF Falsy(notification.gitCommitSha)
                  THEN [q EXCEPT
                          !.pc = "done",
                          !.result =
                            [state |-> "missing_sha",
                             gitCommitSha |-> Undefined,
                             message |-> Message(
    "This notification does not have a tracked git commit SHA and is not pending send, so preview is unavailable.")]]
                  ELSE BeginBody(q)

(***************************************************************************)
(* Spec: one GitHubTemplateClient and its callers.  Each caller makes      *)
(* getTemplateContentByCommit calls one after another; calls of different  *)
(* callers overlap at the awaits of the method.                            *)
(***************************************************************************)
Callers == {"c1", "c2"}

ClientConfig ==
    [repo |-> <<"o", "/", "r">>, apiKey |-> <<"k">>,
     apiBaseUrl |-> DefaultGitHubApiBaseUrl,
     templatesBasePath |-> Some(<<"t", "/">>)]

CacheMaxEntriesOptions == {NoOption} \cup {Some(n) : n \in 0..MaxCapacity}

Request(templatePath, gitCommitSha) ==
    [templatePath |-> templatePath, gitCommitSha |-> gitCommitSha]

\* three distinct cache keys (the second request resolves to the path of the
\* first), and a template path that is empty once cleaned
Requests ==
    { Request(<<"a">>, <<"c">>),
      Request(<<"/", "a">>, <<"c">>),
      Request(<<"/", "a">>, <<"b", ":", "c">>),
      Request(<<"a", ":", "b">>, <<"c">>),
      Request(<<"a", ":", "b">>, <<"b", ":", "c">>),
      Request(<<" ", "/">>, <<"c">>) }

NoRequest == [templatePath |-> <<>>, gitCommitSha |-> <<>>]

\* non-success responses: the status and the x-ratelimit-remaining header
ErrorResponse(status, remaining) == [status |-> status, remaining |-> remaining]

ErrorResponses ==
    { ErrorResponse(404, Absent), ErrorResponse(404, Some("0")),
      ErrorResponse(403, Absent), ErrorResponse(403, Some("0")),
      ErrorResponse(403, Some("1")),
      ErrorResponse(429, Absent), ErrorResponse(429, Some("1")),
      ErrorResponse(500, Absent), ErrorResponse(401, Some("0")) }

\* every content as base64, and a well-formed content under every encoding
Payloads ==
    { ContentBody(c, Some("base64")) :
        c \in { Undefined, Some(<<>>), Some(<<"\n">>), Some(<<"Y", "Q", "=", "=">>),
                Some(<<"Y", "W", "\n", "E", "=">>) } }
        \cup { ContentBody(Some(<<"Y", "Q", "=", "=">>), e) :
                e \in {Absent, Some("base64"), Some("utf-8")} }
        \cup { ContentBody(Undefined, Absent) }

ErrorBodies ==
    { NoBody, MessageBody(Absent), MessageBody(Some("")),
      MessageBody(Some("Bad credentials")) }

IdleCall ==
    [pc |-> "idle", request |-> NoRequest, cacheKey |-> <<>>, status |-> 0,
     remaining |-> Absent]

\* the record of a call that settled: what it was asked, what it received
\* (status 0: no response), and its outcome
Settlement(request, cacheKey, fetched, status, remaining, body, outcome) ==
    [settled |-> TRUE, request |-> request, cacheKey |-> cacheKey,
     fetched |-> fetched, status |-> status, remaining |-> remaining,
     body |-> body, outcome |-> outcome]

NothingSettled ==
    [settled |-> FALSE, request |-> NoRequest, cacheKey |-> <<>>,
     fetched |-> FALSE, status |-> 0, remaining |-> Absent,
     body |-> NoBody, outcome |-> NotRun]

NoPrevious == [request |-> NoRequest, fetched |-> FALSE, outcome |-> NotRun]

\* what prev keeps of a settled call: its request, whether it invoked the
\* fetcher and its outcome when it resolved, nothing when it rejected
Previous(request, fetched, outcome) ==
    IF outcome.ok
    THEN [request |-> request, fetched |-> fetched, outcome |-> outcome]
    ELSE NoPrevious

Init ==
    /\ NoDashboardRun
    /\ NoPreviewRun
    /\ pathIn = <<>>
    /\ baseIn = Undefined
    /\ pathOut = NotRun
    /\ repoIn = <<>>
    /\ repoOut = NotRun
    /\ config = ClientConfig
    /\ \E option \in CacheMaxEntriesOptions :
          cacheMaxEntries = constructorCacheMaxEntries(option)
    /\ cache = <<>>
    /\ calls = [c \in Callers |-> IdleCall]
    /\ netCalls = 0
    /\ prev = NoPrevious
    /\ last = NothingSettled
    /\ hist = <<>>

\* the call of caller c settles with the given outcome
Settle(c, request, cacheKey, fetched, status, remaining, body, outcome) ==
    /\ calls' = [calls EXCEPT ![c] = IdleCall]
    /\ prev' = Previous(request, fetched, outcome)
    /\ last' = Settlement(request, cacheKey, fetched, status, remaining, body, outcome)

\* getTemplateContentByCommit up to its first await (lines 44-67): the path
\* is resolved, the cache is read, and on a miss the fetcher is invoked
StartCall(c, request) ==
    /\ calls[c].pc = "idle"
    /\ LET resolvedPath ==
               resolveTemplatePath(request.templatePath, config.templatesBasePath)
           cacheKey ==
               buildCacheKey(config.repo, resolvedPath.value, request.gitCommitSha)
           fromCache == MapGet(cache, cacheKey)
       IN  IF ~resolvedPath.ok
           THEN /\ Settle(c, request, <<>>, FALSE, 0, Absent, NoBody,
                          Thrown(resolvedPath.message))
                /\ UNCHANGED <<cache, netCalls>>
           ELSE IF isCacheHit(fromCache)
                THEN /\ Settle(c, request, cacheKey, FALSE, 0, Absent, NoBody,
                               Returned(fromCache.val))
                     /\ cache' = cacheAfterGet(cache, cacheKey)
                     /\ UNCHANGED netCalls
                ELSE /\ netCalls < MaxCalls
                     /\ calls' = [calls EXCEPT ![c] =
                            [pc |-> "fetching", request |-> request,
                             cacheKey |-> cacheKey, status |-> 0,
                             remaining |-> Absent]]
                     /\ netCalls' = netCalls + 1
                     /\ last' = NothingSettled
                     /\ UNCHANGED <<cache, prev>>
    /\ UNCHANGED <<dashVars, pathVars, repoVars, previewVars, config, cacheMaxEntries, hist>>

\* the fetcher resolves with a success response (line 63, line 69 not taken):
\* the call goes on to await response.json()
FetchResolveOk(c) ==
    /\ calls[c].pc = "fetching"
    /\ calls' = [calls EXCEPT ![c].pc = "json", ![c].status = 200]
    /\ last' = NothingSettled
    /\ UNCHANGED <<dashVars, pathVars, repoVars, previewVars, config, cacheMaxEntries, cache,
                   netCalls, prev, hist>>

\* the fetcher resolves with a non-success response (lines 69-71): 404, 403
\* and 429 are classified at once, any other status awaits the error body
FetchResolveError(c, status, remaining) ==
    /\ calls[c].pc = "fetching"
    /\ ~IsOk(status)
    /\ IF ClassifiedWithoutBody(status)
       THEN Settle(c, calls[c].request, calls[c].cacheKey, TRUE, status, remaining,
                   NoBody, Thrown(buildHttpError(status, remaining, NoBody)))
       ELSE /\ calls' = [calls EXCEPT ![c].pc = "errorBody", ![c].status = status,
                                      ![c].remaining = remaining]
            /\ last' = NothingSettled
            /\ UNCHANGED prev
    /\ UNCHANGED <<dashVars, pathVars, repoVars, previewVars, config, cacheMaxEntries, cache,
                   netCalls, hist>>

\* the fetcher rejects (line 63): the call rejects with the transport error
FetchReject(c) ==
    /\ calls[c].pc = "fetching"
    /\ Settle(c, calls[c].request, calls[c].cacheKey, TRUE, 0, Absent, NoBody,
              Thrown(TransportError))
    /\ UNCHANGED <<dashVars, pathVars, repoVars, previewVars, config, cacheMaxEntries, cache,
                   netCalls, hist>>

\* response.json() of buildHttpError settles (lines 160-173), with a body
\* that parses or not
ErrorBodyResolve(c, body) ==
    /\ calls[c].pc = "errorBody"
    /\ Settle(c, calls[c].request, calls[c].cacheKey, TRUE, calls[c].status,
              calls[c].remaining, body,
              Thrown(buildHttpError(calls[c].status, calls[c].remaining, body)))
    /\ UNCHANGED <<dashVars, pathVars, repoVars, previewVars, config, cacheMaxEntries, cache,
                   netCalls, hist>>

\* response.json() of a success response rejects (line 73)
JsonReject(c) ==
    /\ calls[c].pc = "json"
    /\ Settle(c, calls[c].request, calls[c].cacheKey, TRUE, calls[c].status,
              Absent, NoBody, Thrown(JsonSyntaxError))
    /\ UNCHANGED <<dashVars, pathVars, repoVars, previewVars, config, cacheMaxEntries, cache,
                   netCalls, hist>>

\* response.json() resolves and the cache is written before the payload is
\* validated: an invalid payload is cached as the empty content
JsonResolveCachingFirst(c, payload) ==
    /\ calls[c].pc = "json"
    /\ LET outcome == contentOutcome(payload)
       IN  /\ Settle(c, calls[c].request, calls[c].cacheKey, TRUE, calls[c].status,
                     Absent, payload, outcome)
           /\ cache' = setCache(cache, cacheMaxEntries, calls[c].cacheKey,
                                IF outcome.ok THEN outcome.value ELSE <<>>)
           /\ hist' = Append(hist, calls[c].cacheKey)
    /\ UNCHANGED <<dashVars, pathVars, repoVars, previewVars, config, cacheMaxEntries,
                   netCalls>>

\* response.json() of a success response resolves (lines 73-81): the payload
\* is validated and decoded, the cache is written, the content is returned
JsonResolve(c, payload) ==
    /\ calls[c].pc = "json"
    /\ LET outcome == contentOutcome(payload)
       IN  /\ Settle(c, calls[c].request, calls[c].cacheKey, TRUE, calls[c].status,
                     Absent, payload, outcome)
           /\ IF outcome.ok
              THEN /\ cache' = setCache(cache, cacheMaxEntries, calls[c].cacheKey,
                                        outcome.value)
                   /\ hist' = Append(hist, calls[c].cacheKey)
              ELSE UNCHANGED <<cache, hist>>
    /\ UNCHANGED <<dashVars, pathVars, repoVars, previewVars, config, cacheMaxEntries,
                   netCalls>>

\* the steps of the calls of the given callers, the network answering with
\* the given responses and bodies
NextClient(callers, requests, errorResponses, errorBodies, payloads) ==
    \/ \E c \in callers, request \in requests : StartCall(c, request)
    \/ \E c \in callers : FetchResolveOk(c)
    \/ \E c \in callers, r \in errorResponses :
          FetchResolveError(c, r.status, r.remaining)
    \/ \E c \in callers : FetchReject(c)
    \/ \E c \in callers, body \in errorBodies : ErrorBodyResolve(c, body)
    \/ \E c \in callers : JsonReject(c)
    \/ \E c \in callers, payload \in payloads : JsonResolve(c, payload)

\* Spec: overlapping calls of two callers for three cache keys; the network
\* answers with one response of each kind and two decoded contents
Next ==
    NextClient(Callers,
               { r \in Requests : r.templatePath \notin {<<"a">>, <<" ", "/">>} },
               {ErrorResponse(404, Absent), ErrorResponse(500, Absent)},
               {NoBody},
               { ContentBody(Undefined, Some("base64")),
                 ContentBody(Some(<<"\n">>), Some("base64")),
                 ContentBody(Some(<<"Y", "Q", "=", "=">>), Some("base64")) })

Spec == Init /\ [][Next]_vars

SpecResponses ==
    Init /\ [][NextClient({"c1"}, Requests, ErrorResponses, ErrorBodies, Payloads)]_vars

(***************************************************************************)
(* SpecLatest: one caller of one client makes getLatestMainCommitSha and   *)
(* getTemplateContentByCommit calls one after another                      *)
(***************************************************************************)
\* a commit lookup that also stores the sha it returns in the content cache
cacheAfterCommitLookupStoring(m, sha) == MapSet(m, <<"m", "a", "i", "n">>, sha)

\* the cache after getLatestMainCommitSha returned (lines 96-101): the method
\* has no statement that touches it
cacheAfterCommitLookup(m, sha) == m

\* getLatestMainCommitSha up to its first await (lines 85-90): the fetcher is
\* invoked
CommitLookupStart(c) ==
    /\ calls[c].pc = "idle"
    /\ netCalls < MaxCalls
    /\ calls' = [calls EXCEPT ![c] = [IdleCall EXCEPT !.pc = "latestFetch"]]
    /\ netCalls' = netCalls + 1
    /\ last' = NothingSettled
    /\ UNCHANGED <<dashVars, pathVars, repoVars, previewVars, config, cacheMaxEntries, cache,
                   prev, hist>>

\* the fetcher resolves (lines 86-94): a success response awaits its JSON, a
\* 404, 403 or 429 is classified at once, any other status awaits the error body
CommitLookupResponse(c, status, remaining) ==
    /\ calls[c].pc = "latestFetch"
    /\ IF IsOk(status)
       THEN /\ calls' = [calls EXCEPT ![c].pc = "latestJson", ![c].status = status]
            /\ last' = NothingSettled
            /\ UNCHANGED prev
       ELSE IF ClassifiedWithoutBody(status)
            THEN Settle(c, NoRequest, <<>>, TRUE, status, remaining, NoBody,
                        Thrown(buildCommitLookupHttpError(status, remaining, NoBody)))
            ELSE /\ calls' = [calls EXCEPT ![c].pc = "latestErrorBody",
                                           ![c].status = status,
                                           ![c].remaining = remaining]
                 /\ last' = NothingSettled
                 /\ UNCHANGED prev
    /\ UNCHANGED <<dashVars, pathVars, repoVars, previewVars, config, cacheMaxEntries, cache,
                   netCalls, hist>>

\* the fetcher rejects (line 86), or response.json() of a success response
\* rejects (line 96)
CommitLookupReject(c) ==
    /\ calls[c].pc \in {"latestFetch", "latestJson"}
    /\ Settle(c, NoRequest, <<>>, TRUE, calls[c].status, Absent, NoBody,
              Thrown(IF calls[c].pc = "latestFetch"
                     THEN TransportError
                     ELSE JsonSyntaxError))
    /\ UNCHANGED <<dashVars, pathVars, repoVars, previewVars, config, cacheMaxEntries, cache,
                   netCalls, hist>>

\* response.json() of buildCommitLookupHttpError settles (lines 194-207)
CommitLookupErrorBody(c, body) ==
    /\ calls[c].pc = "latestErrorBody"
    /\ Settle(c, NoRequest, <<>>, TRUE, calls[c].status, calls[c].remaining, body,
              Thrown(buildCommitLookupHttpError(calls[c].status, calls[c].remaining,
                                                body)))
    /\ UNCHANGED <<dashVars, pathVars, repoVars, previewVars, config, cacheMaxEntries, cache,
                   netCalls, hist>>

\* response.json() of a success response resolves (lines 96-101)
CommitLookupPayload(c, payload) ==
    /\ calls[c].pc = "latestJson"
    /\ Settle(c, NoRequest, <<>>, TRUE, calls[c].status, Absent, payload,
              commitOutcome(payload))
    /\ cache' = cacheAfterCommitLookup(cache, payload.sha.val)
    /\ UNCHANGED <<dashVars, pathVars, repoVars, previewVars, config, cacheMaxEntries,
                   netCalls, hist>>

SpecLatest ==
    Init /\ [][\/ NextClient({"c1"},
                             {Request(<<"a">>, <<"c">>), Request(<<"/", "a">>, <<"d">>)},
                             ErrorResponses,
                             ErrorBodies,
                             {ContentBody(Some(<<"Y", "Q", "=", "=">>), Some("base64"))})
              \/ CommitLookupStart("c1")
              \/ \E r \in ErrorResponses \cup {ErrorResponse(200, Absent)} :
                    CommitLookupResponse("c1", r.status, r.remaining)
              \/ CommitLookupReject("c1")
              \/ \E body \in ErrorBodies : CommitLookupErrorBody("c1", body)
              \/ \E sha \in {Undefined, Some(<<>>), Some(<<"c">>), Some(<<"d">>)} :
                    CommitLookupPayload("c1", CommitBody(sha))]_vars

(***************************************************************************)
(* SpecPreview: fetchNotificationPreview called again and again for one    *)
(* notification, under one environment                                     *)
(***************************************************************************)
Envs ==
    { Env(r, k, b, t) :
        r \in { Undefined, Some(<<" ">>), Some(<<"a">>), Some(<<" ", "a", "/", "a">>),
                Some(HttpsScheme \o <<"h", "/", "a", "/", "a">> \o DotGit \o <<"/">>) },
        k \in { Undefined, Some(<<" ">>), Some(<<" ", "k">>) },
        b \in {Undefined, Some(<<"u", "/">>)},
        t \in {Undefined, Some(<<"t", "/">>)} }

Notifications ==
    { [kind |-> k, gitCommitSha |-> g, status |-> s, bodyTemplate |-> b,
       subjectTemplate |-> j] :
        k \in {"regular", "oneOff"},
        g \in {Undefined, Some(<<"c">>)},
        s \in {"PENDING_SEND", "SENT"},
        b \in {<<"a">>, <<"/">>},
        j \in {Undefined, Some(<<"/", "a">>), Some(<<"b">>)} }
    \cup
    { [kind |-> "absent", gitCommitSha |-> Undefined, status |-> "SENT",
       bodyTemplate |-> <<"a">>, subjectTemplate |-> Undefined] }

InitPreview ==
    /\ NoDashboardRun
    /\ pathIn = <<>>
    /\ baseIn = Undefined
    /\ pathOut = NotRun
    /\ repoIn = <<>>
    /\ repoOut = NotRun
    /\ config = NoConfig
    /\ cacheMaxEntries = 0
    /\ cache = <<>>
    /\ calls = <<>>
    /\ netCalls = 0
    /\ prev = <<>>
    /\ last = <<>>
    /\ hist = <<>>
    /\ env \in Envs
    /\ notification \in Notifications
    /\ preview = IdlePreview
    /\ previews = 0
    /\ previousPreview = NoPreview

PreviewFrame ==
    UNCHANGED <<dashVars, pathVars, repoVars, clientVars, env, notification>>

\* the step of the action leaves the caller's record of earlier calls alone
Running(p) ==
    /\ preview' = p
    /\ UNCHANGED <<previews, previousPreview>>
    /\ PreviewFrame

\* fetchNotificationPreview is called (line 286: getVintaSendService awaited)
PreviewStart ==
    /\ preview.pc = "idle"
    /\ previews < MaxPreviews
    /\ Running([IdlePreview EXCEPT !.pc = "service"])

ServiceResolve ==
    /\ preview.pc = "service"
    /\ Running([preview EXCEPT !.pc = "getNotification"])

ServiceReject ==
    /\ preview.pc = "service"
    /\ Running(Fail(preview, Message("VintaSend backend configuration is incomplete")))

\* service.getNotification resolves (line 290): with the notification, or
\* with null and the one-off lookup is awaited
GetNotificationResolve ==
    /\ preview.pc = "getNotification"
    /\ Running(IF notification.kind = "regular"
               THEN NotificationFound(preview)
               ELSE [preview EXCEPT !.pc = "getOneOff"])

\* service.getOneOffNotification resolves (lines 291-298)
GetOneOffResolve ==
    /\ preview.pc = "getOneOff"
    /\ Running(IF notification.kind = "oneOff"
               THEN NotificationFound(preview)
               ELSE Fail(preview, <<"Notification with ID ", NotificationId, " not found.">>))

LookupReject ==
    /\ preview.pc \in {"getNotification", "getOneOff"}
    /\ Running(Fail(preview, Message("backend request failed")))

\* getLatestMainCommitSha: the fetcher resolves with a success response
LatestFetchOk ==
    /\ preview.pc = "latestFetch"
    /\ Running([preview EXCEPT !.pc = "latestJson", !.status = 200])

\* getLatestMainCommitSha: the fetcher resolves with a non-success response
LatestFetchError(status, remaining) ==
    /\ preview.pc = "latestFetch"
    /\ ~IsOk(status)
    /\ Running(IF ClassifiedWithoutBody(status)
               THEN Fail(preview, buildCommitLookupHttpError(status, remaining, NoBody))
               ELSE [preview EXCEPT !.pc = "latestErrorBody", !.status = status,
                                    !.remaining = remaining])

LatestFetchReject ==
    /\ preview.pc = "latestFetch"
    /\ Running(Fail(preview, TransportError))

LatestErrorBodyResolve(body) ==
    /\ preview.pc = "latestErrorBody"
    /\ Running(Fail(preview,
                    buildCommitLookupHttpError(preview.status, preview.remaining, body)))

LatestJsonReject ==
    /\ preview.pc = "latestJson"
    /\ Running(Fail(preview, JsonSyntaxError))

\* getLatestMainCommitSha returns (lines 96-101, then lines 305-319)
LatestJsonResolve(payload) ==
    /\ preview.pc = "latestJson"
    /\ LET outcome == commitOutcome(payload)
       IN  Running(IF outcome.ok
                   THEN BeginBody([preview EXCEPT !.sha = Some(outcome.value)])
                   ELSE Fail(preview, outcome.message))

\* getTemplateContentByCommit: the fetcher resolves with a success response
ContentFetchOk ==
    /\ preview.pc = "contentFetch"
    /\ Running([preview EXCEPT !.pc = "contentJson", !.status = 200])

\* getTemplateContentByCommit: the fetcher resolves with a non-success response
ContentFetchError(status, remaining) ==
    /\ preview.pc = "contentFetch"
    /\ ~IsOk(status)
    /\ Running(IF ClassifiedWithoutBody(status)
               THEN Fail(preview, buildHttpError(status, remaining, NoBody))
               ELSE [preview EXCEPT !.pc = "contentErrorBody", !.status = status,
                                    !.remaining = remaining])

ContentFetchReject ==
    /\ preview.pc = "contentFetch"
    /\ Running(Fail(preview, TransportError))

ContentErrorBodyResolve(body) ==
    /\ preview.pc = "contentErrorBody"
    /\ Running(Fail(preview, buildHttpError(preview.status, preview.remaining, body)))

ContentJsonReject ==
    /\ preview.pc = "contentJson"
    /\ Running(Fail(preview, JsonSyntaxError))

\* getTemplateContentByCommit returns (lines 73-81 of the client): the cache
\* of the call's client is written and the action goes on
ContentJsonResolve(payload) ==
    /\ preview.pc = "contentJson"
    /\ LET outcome == contentOutcome(payload)
           cached ==
               [preview EXCEPT !.client.cache =
                   setCache(preview.client.cache, preview.client.cacheMaxEntries,
                            preview.cacheKey, outcome.value)]
       IN  Running(IF ~outcome.ok THEN Fail(preview, outcome.message)
                   ELSE IF preview.part = "body"
                        THEN GotBody(cached, outcome.value)
                        ELSE GotSubject(cached, outcome.value))

\* service.renderEmailTemplateFromContent resolves (lines 329-352)
RenderResolve ==
    /\ preview.pc = "render"
    /\ Running([preview EXCEPT !.pc = "done",
                               !.result = [state |-> "success", message |-> <<>>,
                                           gitCommitSha |-> preview.sha]])

RenderReject ==
    /\ preview.pc = "render"
    /\ Running(Fail(preview, Message("template render failed")))

\* the caller receives the result of the action
PreviewReturn ==
    /\ preview.pc = "done"
    /\ preview' = IdlePreview
    /\ previews' = previews + 1
    /\ previousPreview' = [state |-> preview.result.state,
                           contentRequests |-> preview.contentRequests,
                           commitLookups |-> preview.commitLookups]
    /\ PreviewFrame

PreviewErrorResponses == {ErrorResponse(404, Absent), ErrorResponse(500, Absent)}

PreviewErrorBodies == {NoBody, MessageBody(Some("Bad credentials"))}

NextPreview ==
    \/ PreviewStart
    \/ ServiceResolve
    \/ ServiceReject
    \/ GetNotificationResolve
    \/ GetOneOffResolve
    \/ LookupReject
    \/ LatestFetchOk
    \/ \E r \in PreviewErrorResponses : LatestFetchError(r.status, r.remaining)
    \/ LatestFetchReject
    \/ \E body \in PreviewErrorBodies : LatestErrorBodyResolve(body)
    \/ LatestJsonReject
    \/ \E payload \in { CommitBody(Undefined), CommitBody(Some(<<"c">>)) } :
          LatestJsonResolve(payload)
    \/ ContentFetchOk
    \/ \E r \in PreviewErrorResponses : ContentFetchError(r.status, r.remaining)
    \/ ContentFetchReject
    \/ \E body \in PreviewErrorBodies : ContentErrorBodyResolve(body)
    \/ ContentJsonReject
    \/ \E payload \in { ContentBody(Undefined, Some("base64")),
                         ContentBody(Some(<<"Y", "Q", "=", "=">>), Some("base64")) } :
          ContentJsonResolve(payload)
    \/ RenderResolve
    \/ RenderReject
    \/ PreviewReturn

SpecPreview == InitPreview /\ [][NextPreview]_vars

(***************************************************************************)
(* Steps of a call, as seen in a pair of states                            *)
(***************************************************************************)
\* a call of caller c for the request misses the cache and invokes the fetcher
MissStep(c, request) ==
    /\ calls[c].pc = "idle"
    /\ calls'[c].pc = "fetching"
    /\ calls'[c].request = request

\* a call for the request is answered from the cache
HitStep(request) ==
    /\ calls' = calls
    /\ last'.settled
    /\ ~last'.fetched
    /\ last'.outcome.ok
    /\ last'.request = request

\* a call for the request is made
CallStep(request) ==
    \/ \E c \in Callers : MissStep(c, request)
    \/ calls' = calls /\ last'.settled /\ last'.request = request

\* the keys of the cache, oldest first
CacheKeys == [i \in 1..Len(cache) |-> cache[i].key]

(***************************************************************************)
(* C1                                                                      *)
(***************************************************************************)
\* a call made for the request of the call that settled last, that call
\* having resolved, invokes no fetcher and resolves with the same content;
\* with the one invocation of the first call that is one network call in all
RepeatedCallIsServedFromCache ==
    \A request \in Requests :
        (prev.outcome.ok /\ prev.request = request /\ CallStep(request)) =>
            /\ netCalls' = netCalls
            /\ HitStep(request)
            /\ last'.outcome = prev.outcome

\* C1 as claimed: on any client, a second call with the request of a first
\* call that has resolved issues no network call and returns the content of
\* the first.
C1_RepeatedCallHitsCache == [][RepeatedCallIsServedFromCache]_vars

\* C1 as amended: the same on a client whose cacheMaxEntries is at least 1.
C1_RepeatedCallHitsCacheWhenCaching ==
    [][cacheMaxEntries >= 1 => RepeatedCallIsServedFromCache]_vars

\* the second of two calls was answered from the cache after one fetch in all
C1_Witness ==
    /\ cacheMaxEntries >= 1
    /\ netCalls = 1
    /\ hist = <<last.cacheKey>>
    /\ last.settled
    /\ ~last.fetched
    /\ last.outcome.ok
    /\ prev.request = last.request

(***************************************************************************)
(* C3                                                                      *)
(***************************************************************************)
\* C3: the number of cache entries never exceeds cacheMaxEntries (100 when
\* the option is absent).
C3_CacheWithinCapacity == Len(cache) <= cacheMaxEntries

\* the cache is full after more writes than it holds
C3_Witness ==
    /\ cacheMaxEntries = MaxCapacity
    /\ Len(cache) = cacheMaxEntries
    /\ Len(hist) > cacheMaxEntries

(***************************************************************************)
(* C4                                                                      *)
(***************************************************************************)
IsDistinct(s) == \A i, j \in 1..Len(s) : i # j => s[i] # s[j]

\* exactly cacheMaxEntries + 1 distinct keys have been fetched so far
FetchedOneMoreThanCapacity ==
    Len(hist) = cacheMaxEntries + 1 /\ IsDistinct(hist)

InTail(key) == \E i \in 2..Len(hist) : hist[i] = key

\* C4: after N + 1 distinct keys were fetched with capacity N, the cache
\* holds the last N of them in order (exactly the first was evicted); a call
\* for one of the N is answered from the cache, and a call that is answered
\* from the cache is never one for the first key, which takes a new fetch.
C4_FirstInsertedKeyEvicted ==
    /\ [](FetchedOneMoreThanCapacity => CacheKeys = Tail(hist))
    /\ [][FetchedOneMoreThanCapacity =>
            /\ \A c \in Callers, r \in Requests :
                  MissStep(c, r) => ~InTail(calls'[c].cacheKey)
            /\ \A r \in Requests :
                  HitStep(r) => /\ InTail(last'.cacheKey)
                                /\ last'.cacheKey # hist[1]
                                /\ netCalls' = netCalls]_vars

\* with capacity 2 and three keys fetched, the second key is read from the cache
C4_Witness ==
    /\ cacheMaxEntries = MaxCapacity
    /\ FetchedOneMoreThanCapacity
    /\ last.settled
    /\ ~last.fetched
    /\ last.outcome.ok
    /\ last.cacheKey = hist[2]
    /\ ~MapHas(cache, hist[1])

(***************************************************************************)
(* C5                                                                      *)
(***************************************************************************)
\* C5: a call answered from the cache leaves the cache as it was: the same
\* entries in the same order.
C5_HitLeavesCacheUnchanged ==
    [][(\E r \in Requests : HitStep(r)) => cache' = cache]_vars

\* the oldest of two entries was read from the cache and is still the oldest
C5_Witness ==
    /\ last.settled
    /\ ~last.fetched
    /\ last.outcome.ok
    /\ Len(cache) >= 2
    /\ cache[1].key = last.cacheKey

(***************************************************************************)
(* C6                                                                      *)
(***************************************************************************)
\* the last step settled a call on a non-success response
SettledOnErrorResponse == last.settled /\ last.status # 0 /\ ~IsOk(last.status)

\* the message C6 names for the statuses classified by status and header
ClassifiedMessage(status, remaining) ==
    CASE status = 404 -> TemplateNotFound
      [] status = 429 -> RateLimitExceeded
      [] status = 403 /\ remaining = Some("0") -> RateLimitExceeded
      [] status = 403 /\ remaining # Some("0") -> RequestForbidden

\* C6 as claimed: on a non-success response the call rejects with a message
\* that status and x-ratelimit-remaining alone determine (the body does not
\* change it): the not-found, rate-limit and forbidden messages, and for any
\* other status a generic message that contains the numeric status.
C6_ErrorMessageFromStatusAndHeader ==
    SettledOnErrorResponse =>
        /\ ~last.outcome.ok
        /\ last.outcome.message = buildHttpError(last.status, last.remaining, NoBody)
        /\ IF last.status \in {404, 403, 429}
           THEN last.outcome.message = ClassifiedMessage(last.status, last.remaining)
           ELSE \E i \in 1..Len(last.outcome.message) :
                   last.outcome.message[i] = ToString(last.status)

\* C6 as amended: 404, 403 and 429 give the message that status and header
\* determine; any other status gives the generic message with the numeric
\* status, followed by ": <message>" exactly when the body parses with a
\* non-empty message field.
C6_ErrorMessageFromStatusHeaderAndBody ==
    SettledOnErrorResponse =>
        /\ ~last.outcome.ok
        /\ IF last.status \in {404, 403, 429}
           THEN last.outcome.message = ClassifiedMessage(last.status, last.remaining)
           ELSE LET m == last.outcome.message
                    withMessage ==
                        /\ last.body.parsed
                        /\ last.body.message.def
                        /\ last.body.message.val # ""
                IN  /\ Len(m) >= 2
                    /\ m[1] = FetchFailedPrefix
                    /\ m[2] = ToString(last.status)
                    /\ IF withMessage
                       THEN Len(m) = 4 /\ m[3] = ": " /\ m[4] = last.body.message.val
                       ELSE Len(m) = 2

\* a 500 whose body parses with a message was answered with the generic
\* message, the status and the message of the body in it
C6_Witness ==
    /\ SettledOnErrorResponse
    /\ last.status = 500
    /\ last.body = MessageBody(Some("Bad credentials"))
    /\ last.outcome.message = <<FetchFailedPrefix, "500", ": ", "Bad credentials">>

(***************************************************************************)
(* C7                                                                      *)
(***************************************************************************)
\* the last step settled a call on a success response whose body parsed
SettledOnPayload == last.settled /\ IsOk(last.status) /\ last.body.parsed

\* C7: on a success response the call returns the decoded content whenever
\* the body has a string content, of any length, and encoding "base64", and
\* rejects with the invalid-response error exactly when the content is
\* missing or the encoding is missing or different.
C7_StringContentIsDecoded ==
    SettledOnPayload =>
        LET wellFormed ==
                last.body.content.def /\ last.body.encoding = Some("base64")
        IN  /\ wellFormed =>
                last.outcome = Returned(decodeContent(last.body.content.val))
            /\ (last.outcome = Thrown(InvalidResponse)) <=> ~wellFormed

(***************************************************************************)
(* C2                                                                      *)
(***************************************************************************)
\* the notification stores its commit and the call of fetchNotificationPreview
\* that returned last succeeded
RepeatedPinnedPreview ==
    /\ ~Falsy(notification.gitCommitSha)
    /\ previousPreview.state = "success"

\* C2: when fetchNotificationPreview is called again in the same process for
\* the same commit-pinned notification after a call that succeeded, the later
\* call issues no GitHub content request.
C2_RepeatedPreviewIssuesNoContentRequest ==
    RepeatedPinnedPreview => preview.contentRequests = 0

(***************************************************************************)
(* C8                                                                      *)
(***************************************************************************)
\* GITHUB_REPO is missing or unparseable, or GITHUB_API_KEY is missing
EnvIsMisconfigured ==
    \/ Falsy(TrimOptional(env.GITHUB_REPO))
    \/ Falsy(TrimOptional(env.GITHUB_API_KEY))
    \/ ~normalizeRepo(TrimOptional(env.GITHUB_REPO).val).ok

\* owner/name: ^[^/\s]+/[^/\s]+$
IsOwnerSlashName(s) ==
    /\ \A i \in 1..Len(s) : s[i] # " "
    /\ Cardinality({i \in 1..Len(s) : s[i] = "/"}) = 1
    /\ Len(s) >= 3
    /\ s[1] # "/"
    /\ s[Len(s)] # "/"

\* s contains "://"
HasScheme(s) ==
    \E i \in 1..(Len(s) - 2) : s[i] = ":" /\ s[i + 1] = "/" /\ s[i + 2] = "/"

IsNormalizedRepo(s) ==
    /\ IsOwnerSlashName(s)
    /\ ~HasScheme(s)
    /\ ~EndsWith(s, DotGit)

\* C8: a misconfigured environment makes createGitHubTemplateClientFromEnv
\* throw before any request is issued, a request is issued only by a client
\* that exists, and every client that exists holds a normalized repository
\* (owner/name, no scheme, no .git suffix) and a non-empty token.
C8_ConfigurationFailsBeforeNetwork ==
    /\ EnvIsMisconfigured =>
          /\ ~preview.client.exists
          /\ preview.contentRequests = 0
          /\ preview.commitLookups = 0
    /\ (preview.contentRequests > 0 \/ preview.commitLookups > 0) =>
          preview.client.exists
    /\ preview.client.exists =>
          /\ IsNormalizedRepo(preview.client.config.repo)
          /\ preview.client.config.apiKey # <<>>

(***************************************************************************)
(* SpecRepo: normalizeRepo applied to every bounded input.  An input is a  *)
(* lead (nothing, a URL scheme with or without a host, an SSH prefix)      *)
(* followed by at most MaxRepoChunks chunks.                               *)
(***************************************************************************)
RECURSIVE Flatten(_)
Flatten(chunks) ==
    IF chunks = <<>> THEN <<>> ELSE Head(chunks) \o Flatten(Tail(chunks))

RepoInputs ==
    { lead \o Flatten(body) :
        lead \in { <<>>,
                   HttpsScheme \o <<"h", "/">>,
                   <<"H", "T", "T", "P", ":", "/", "/">>,
                   GitAt \o <<"h", ":">>,
                   <<"h", "t", "t", "p", "s", ":", "/">> },
        body \in StringsUpTo({ <<"a">>, <<"/">>, DotGit, <<" ">> }, MaxRepoChunks) }

InitRepo ==
    /\ NoDashboardRun
    /\ NoPreviewRun
    /\ pathIn = <<>>
    /\ baseIn = Undefined
    /\ pathOut = NotRun
    /\ repoIn \in RepoInputs
    /\ repoOut = NotRun
    /\ config = NoConfig
    /\ cacheMaxEntries = 0
    /\ cache = <<>>
    /\ calls = <<>>
    /\ netCalls = 0
    /\ prev = <<>>
    /\ last = <<>>
    /\ hist = <<>>

NormalizeRepo ==
    /\ repoOut = NotRun
    /\ repoOut' = normalizeRepo(repoIn)
    /\ UNCHANGED <<dashVars, pathVars, repoIn, clientVars, previewVars>>

SpecRepo == InitRepo /\ [][NormalizeRepo]_vars

(***************************************************************************)
(* C9                                                                      *)
(***************************************************************************)
\* s matches ^[^/\s]+/[^/\s]+$
\* C9: whenever normalizeRepo succeeds, its output matches ^[^/\s]+/[^/\s]+$,
\* has no scheme and does not end in ".git".
C9_NormalizedRepoIsOwnerName ==
    repoOut.ok => IsNormalizedRepo(repoOut.value)

(***************************************************************************)
(* SpecPath: resolveTemplatePath applied to every bounded input            *)
(***************************************************************************)
InitPath ==
    /\ NoDashboardRun
    /\ NoPreviewRun
    /\ repoIn = <<>>
    /\ repoOut = NotRun
    /\ config = NoConfig
    /\ cacheMaxEntries = 0
    /\ cache = <<>>
    /\ calls = <<>>
    /\ netCalls = 0
    /\ prev = <<>>
    /\ last = <<>>
    /\ hist = <<>>
    /\ pathIn \in StringsUpTo(PathAlphabet, MaxPathLen)
    /\ baseIn \in {Undefined} \cup {Some(s) : s \in StringsUpTo(PathAlphabet, MaxPathLen)}
    /\ pathOut = NotRun

ResolvePath ==
    /\ pathOut = NotRun
    /\ pathOut' = resolveTemplatePath(pathIn, baseIn)
    /\ UNCHANGED <<dashVars, pathIn, baseIn, repoVars, clientVars, previewVars>>

SpecPath == InitPath /\ [][ResolvePath]_vars

(***************************************************************************)
(* C10                                                                     *)
(***************************************************************************)
\* the cleaned form of a path, stated on positions: white space is dropped at
\* both ends, then slashes are dropped at both ends of what is left
Cleaned(s) ==
    LET notWs == {i \in 1..Len(s) : s[i] # " "}
        inner == {i \in 1..Len(s) :
                    /\ s[i] # "/"
                    /\ \E l \in notWs : l <= i
                    /\ \E h \in notWs : h >= i}
        Min(S) == CHOOSE x \in S : \A y \in S : x <= y
        Max(S) == CHOOSE x \in S : \A y \in S : x >= y
    IN  IF inner = {} THEN <<>> ELSE SubSeq(s, Min(inner), Max(inner))

CleanedBase == IF baseIn.def THEN Cleaned(baseIn.val) ELSE <<>>

\* C10: whenever the cleaned template path is non-empty, resolveTemplatePath
\* returns the cleaned base path and the cleaned template path joined by
\* exactly one slash (the cleaned template path alone when the cleaned base
\* path is empty or absent); the result has no slash on either side of the
\* joining slash and neither starts nor ends with a slash.
C10_ResolveJoinsWithOneSlash ==
    (pathOut # NotRun /\ Cleaned(pathIn) # <<>>) =>
        LET t == Cleaned(pathIn)
            b == CleanedBase
            r == pathOut.value
        IN  /\ pathOut.ok
            /\ r = IF b = <<>> THEN t ELSE b \o <<"/">> \o t
            /\ r[1] # "/"
            /\ r[Len(r)] # "/"
            /\ b # <<>> => /\ r[Len(b) + 1] = "/"
                           /\ r[Len(b)] # "/"
                           /\ r[Len(b) + 2] # "/"

\* a base path and a template path that both carry slashes at the join
C10_Witness ==
    /\ pathOut.ok
    /\ baseIn.def
    /\ baseIn.val = <<"a", "/">>
    /\ pathIn = <<"/", "/", "a">>
    /\ pathOut.value = <<"a", "/", "a">>

(***************************************************************************)
(* C11                                                                     *)
(***************************************************************************)
\* no call has been made on the client
NoCallYet ==
    /\ ~last.settled
    /\ netCalls = 0
    /\ hist = <<>>
    /\ \A c \in DOMAIN calls : calls[c].pc = "idle"

\* C11: a call whose templatePath is empty once white space and leading and
\* trailing slashes are removed rejects with 'Template path is required for
\* preview rendering.' in the step that makes it, with no fetcher invoked, no
\* cache key built (the cache is not read) and the cache unchanged; a call
\* with any other templatePath never rejects with that message; and
\* resolveTemplatePath fails for exactly the inputs whose cleaned template
\* path is empty, whatever the base path.
C11_EmptyTemplatePathRejectsBeforeCache ==
    /\ [][\A r \in Requests :
            CallStep(r) =>
                IF Cleaned(r.templatePath) = <<>>
                THEN /\ last'.settled
                     /\ last'.outcome =
                          Thrown(Message("Template path is required for preview rendering."))
                     /\ ~last'.fetched
                     /\ last'.cacheKey = <<>>
                     /\ netCalls' = netCalls
                     /\ cache' = cache
                     /\ hist' = hist
                ELSE last'.settled =>
                        last'.outcome.message #
                          Message("Template path is required for preview rendering.")]_vars
    /\ [](NoCallYet =>
            \A p \in StringsUpTo(PathAlphabet, MaxPathLen) :
               \A b \in {Undefined, Some(<<>>), Some(<<"/">>), Some(<<"a", "/">>)} :
                  resolveTemplatePath(p, b).ok <=> Cleaned(p) # <<>>)

\* a call for the template path " /" was rejected while the cache held an entry
C11_Witness ==
    /\ last.settled
    /\ last.request.templatePath = <<" ", "/">>
    /\ ~last.outcome.ok
    /\ netCalls >= 1
    /\ Len(cache) >= 1

(***************************************************************************)
(* C12                                                                     *)
(***************************************************************************)
\* caller c is inside getLatestMainCommitSha
InCommitLookup(c) == calls[c].pc \in {"latestFetch", "latestJson", "latestErrorBody"}

\* the call that settled last was a getLatestMainCommitSha call
SettledCommitLookup == last.settled /\ last.request = NoRequest

\* C12: every getLatestMainCommitSha call invokes the fetcher exactly once,
\* when it starts, whatever was looked up before; no step of the call changes
\* the content cache or the record of its writes; and a call that resolves
\* returns the sha of the response it received itself.
C12_CommitLookupIsAlwaysLive ==
    /\ [][\A c \in Callers :
            /\ (calls[c].pc = "idle" /\ InCommitLookup(c)') =>
                  /\ netCalls' = netCalls + 1
                  /\ cache' = cache
            /\ InCommitLookup(c) =>
                  /\ netCalls' = netCalls
                  /\ cache' = cache
                  /\ hist' = hist]_vars
    /\ [](SettledCommitLookup =>
            /\ last.fetched
            /\ last.outcome.ok => last.outcome.value = last.body.sha.val)

\* a lookup resolved with the sha of its own response on a client whose
\* cache holds a template content, after one fetch for each of the two
C12_Witness ==
    /\ SettledCommitLookup
    /\ last.outcome = Returned(<<"d">>)
    /\ netCalls = 2
    /\ Len(cache) = 1
    /\ Len(hist) = 1

(***************************************************************************)
(* C13                                                                     *)
(***************************************************************************)
\* the messages of the errors that can be thrown where the running call of
\* fetchNotificationPreview is waiting
ThrownWhere(p) ==
    LET pathRequired == Message("Template path is required for preview rendering.")
        responses == {<<r, b>> : r \in PreviewErrorResponses,
                                b \in PreviewErrorBodies \cup {NoBody}}
    IN  CASE p.pc = "service" ->
               {Message("VintaSend backend configuration is incomplete")}
          [] p.pc \in {"getNotification", "getOneOff"} ->
               { Message("backend request failed"),
                 <<"Notification with ID ", NotificationId, " not found.">>,
                 createGitHubTemplateClientFromEnv(env, NoOption).message,
                 pathRequired }
          [] p.pc \in {"latestFetch", "latestJson", "latestErrorBody"} ->
               { buildCommitLookupHttpError(x[1].status, x[1].remaining, x[2]) :
                    x \in responses }
               \cup { TransportError, JsonSyntaxError, pathRequired,
                      Message("GitHub main branch commit lookup returned an invalid response.") }
          [] p.pc \in {"contentFetch", "contentJson", "contentErrorBody"} ->
               { buildHttpError(x[1].status, x[1].remaining, x[2]) : x \in responses }
               \cup { TransportError, JsonSyntaxError, pathRequired, InvalidResponse }
          [] p.pc = "render" -> {Message("template render failed")}
          [] OTHER -> {}

\* C13: a call of fetchNotificationPreview always resolves, with state
\* 'success', 'missing_sha' or 'error'; a call that fails resolves with state
\* 'error' and the message of the error thrown where it was waiting; and
\* 'success' is returned only by the step in which the render resolves, with
\* the body template content in hand, and the subject template content when
\* the notification has a subject template.
C13_PreviewNeverRejects ==
    /\ [](preview.pc = "done" =>
            /\ preview.result.state \in {"success", "missing_sha", "error"}
            /\ preview.result.state = "error" => preview.result.message # <<>>)
    /\ [][(preview.pc # "done" /\ preview'.pc = "done") =>
            /\ preview'.result.state = "error" =>
                  preview'.result.message \in ThrownWhere(preview)
            /\ preview'.result.state = "success" =>
                  /\ preview.pc = "render"
                  /\ preview.body.def
                  /\ ~Falsy(notification.subjectTemplate) => preview.subject.def
                  /\ preview.sha.def
                  /\ preview'.result.gitCommitSha = preview.sha]_vars

\* the body template was fetched, the fetch of the subject template was
\* answered 404, and the call resolved with the not-found message
C13_Witness ==
    /\ preview.pc = "done"
    /\ preview.result.state = "error"
    /\ preview.result.message = TemplateNotFound
    /\ preview.body.def
    /\ preview.contentRequests = 2

(***************************************************************************)
(* C14                                                                     *)
(***************************************************************************)
\* the notification of the running call has no stored commit
NoStoredSha == notification # <<>> /\ Falsy(notification.gitCommitSha)

MaxCancels == 3

\* no template client, preview, path or repository operation is run
NoTemplateRun ==
    /\ NoPreviewRun
    /\ pathIn = <<>>
    /\ baseIn = Undefined
    /\ pathOut = NotRun
    /\ repoIn = <<>>
    /\ repoOut = NotRun
    /\ config = NoConfig
    /\ cacheMaxEntries = 0
    /\ cache = <<>>
    /\ calls = <<>>
    /\ netCalls = 0
    /\ prev = <<>>
    /\ last = <<>>
    /\ hist = <<>>

IdleCancel == [pc |-> "idle", success |-> FALSE, error |-> <<>>]

\* return { success: false, error }
CancelFailure(error) == [pc |-> "done", success |-> FALSE, error |-> error]

\* lines 531-538: the notification is in hand; its status is tested and
\* service.cancelNotification is called
cancelFound(status) ==
    IF status # "PENDING_SEND"
    THEN CancelFailure(Message("Only notifications in PENDING_SEND status can be cancelled."))
    ELSE [IdleCancel EXCEPT !.pc = "cancel"]

InitCancel ==
    /\ NoTemplateRun
    /\ NoListRun
    /\ NoProxyRun
    /\ NoUiRun
    /\ stored \in {[kind |-> k, status |-> s] :
                      k \in {"regular", "oneOff"},
                      s \in {"PENDING_SEND", "SENT", "FAILED", "READ", "CANCELLED"}}
                  \cup {[kind |-> "absent", status |-> "none"]}
    /\ cancels = [c \in Callers |-> IdleCancel]
    /\ cancelLog = <<>>
    /\ cancelCalls = 0

CancelFrame ==
    UNCHANGED <<pathVars, repoVars, clientVars, previewVars, listVars, proxyVars,
                uiVars>>

\* cancelNotification is called; getVintaSendService is awaited
CancelStart(c) ==
    /\ cancels[c].pc = "idle"
    /\ cancelCalls < MaxCancels
    /\ cancels' = [cancels EXCEPT ![c] = [IdleCancel EXCEPT !.pc = "service"]]
    /\ cancelCalls' = cancelCalls + 1
    /\ UNCHANGED <<stored, cancelLog>>
    /\ CancelFrame

CancelServiceResolve(c) ==
    /\ cancels[c].pc = "service"
    /\ cancels' = [cancels EXCEPT ![c].pc = "getNotification"]
    /\ UNCHANGED <<stored, cancelLog, cancelCalls>>
    /\ CancelFrame

\* service.getNotification resolves (line 521): with the notification, or
\* with null and the one-off lookup is awaited
CancelGetNotificationResolve(c) ==
    /\ cancels[c].pc = "getNotification"
    /\ cancels' = [cancels EXCEPT ![c] =
                      IF stored.kind = "regular"
                      THEN cancelFound(stored.status)
                      ELSE [IdleCancel EXCEPT !.pc = "getOneOff"]]
    /\ UNCHANGED <<stored, cancelLog, cancelCalls>>
    /\ CancelFrame

\* service.getOneOffNotification resolves (lines 522-529)
CancelGetOneOffResolve(c) ==
    /\ cancels[c].pc = "getOneOff"
    /\ cancels' = [cancels EXCEPT ![c] =
                      IF stored.kind = "oneOff"
                      THEN cancelFound(stored.status)
                      ELSE CancelFailure(<<"Notification with ID ", NotificationId,
                                           " not found.">>)]
    /\ UNCHANGED <<stored, cancelLog, cancelCalls>>
    /\ CancelFrame

\* the backend carries out service.cancelNotification (line 538) on the
\* notification as it is stored then, and the action returns success
CancelBackend(c) ==
    /\ cancels[c].pc = "cancel"
    /\ cancelLog' = Append(cancelLog, stored.status)
    /\ stored' = [stored EXCEPT !.status = "CANCELLED"]
    /\ cancels' = [cancels EXCEPT ![c] = [pc |-> "done", success |-> TRUE, error |-> <<>>]]
    /\ UNCHANGED cancelCalls
    /\ CancelFrame

\* an awaited backend call rejects; the catch block returns its message
CancelReject(c) ==
    /\ cancels[c].pc \in {"service", "getNotification", "getOneOff", "cancel"}
    /\ cancels' = [cancels EXCEPT ![c] = CancelFailure(Message("backend request failed"))]
    /\ UNCHANGED <<stored, cancelLog, cancelCalls>>
    /\ CancelFrame

\* the caller receives the result of the action
CancelReturn(c) ==
    /\ cancels[c].pc = "done"
    /\ cancels' = [cancels EXCEPT ![c] = IdleCancel]
    /\ UNCHANGED <<stored, cancelLog, cancelCalls>>
    /\ CancelFrame

SpecCancel ==
    InitCancel /\ [][\E c \in Callers :
                        \/ CancelStart(c)
                        \/ CancelServiceResolve(c)
                        \/ CancelGetNotificationResolve(c)
                        \/ CancelGetOneOffResolve(c)
                        \/ CancelBackend(c)
                        \/ CancelReject(c)
                        \/ CancelReturn(c)]_vars

(***************************************************************************)
(* C15                                                                     *)
(***************************************************************************)
\* C15: every backend cancel that cancelNotification makes finds the
\* notification in status PENDING_SEND, and a call that ended without
\* reaching the backend cancel returned success: false.
C15_CancelOnlyWhilePendingSend ==
    /\ \A i \in 1..Len(cancelLog) : cancelLog[i] = "PENDING_SEND"
    /\ \A c \in Callers :
          (cancels[c].pc = "done" /\ cancels[c].success) => cancelLog # <<>>

(***************************************************************************)
(* SpecList: the paginated fetch actions of the notifications table       *)
(* (fetchNotifications, fetchPendingNotifications,                         *)
(* fetchFutureNotifications, fetchOneOffNotifications) and the backend     *)
(* query they await.  The backend answers a query for 0-indexed page q of  *)
(* size s with rows q*s+1 .. q*s+s of the rows the query matches.          *)
(***************************************************************************)
\* number of rows the backend query matches
MaxRows == 4

\* largest 1-indexed page asked for
MaxPage == 3

\* largest page size asked for
MaxPageSize == 2

\* number of fetch calls
MaxFetches == 2

MaxRequests == 3

MaxChanges == 4

\* the action that keeps the dashboard's 1-indexed page in the backend query
backendPageOneIndexed(page) == page

\* Convert from 1-indexed (dashboard) to 0-indexed (backend) pages
backendPage(page) == page - 1

\* the rows the backend query of a fetch action matches: the one-off query
\* matches one-off notifications only
matchedBy(action, rows) ==
    IF action = "fetchOneOffNotifications"
    THEN SelectSeq(rows, LAMBDA n : n.oneOff)
    ELSE rows

\* the backend's answer to a query for a 0-indexed page of the given size
backendRows(rows, page, size) ==
    SubSeq(rows, page * size + 1,
           IF (page + 1) * size < Len(rows) THEN (page + 1) * size ELSE Len(rows))

\* serialize.ts: the list DTO of a row
serializeNotification(n) == [id |-> n.id, dto |-> "DashboardNotification"]

serializeOneOffNotification(n) == [id |-> n.id, dto |-> "DashboardOneOffNotification"]

\* dbNotifications.map(...) of the fetch action
serialized(action, rows) ==
    [i \in 1..Len(rows) |->
        IF action = "fetchOneOffNotifications" \/ rows[i].oneOff
        THEN serializeOneOffNotification(rows[i])
        ELSE serializeNotification(rows[i])]

\* return { data: serialized, page, pageSize, hasMore: serialized.length === pageSize }
paginatedResult(data, page, pageSize) ==
    [ok |-> TRUE, data |-> data, page |-> page, pageSize |-> pageSize,
     hasMore |-> Len(data) = pageSize, message |-> <<>>]

\* notifications-table.tsx: disabled={!hasMore || isLoading} of the Next button
nextPageDisabled(hasMore, isLoading) == ~hasMore \/ isLoading

IdleListing ==
    [pc |-> "idle", action |-> "none", page |-> 0, pageSize |-> 0,
     query |-> [page |-> 0, size |-> 0], rows |-> <<>>,
     result |-> [ok |-> FALSE, data |-> <<>>, page |-> 0, pageSize |-> 0,
                 hasMore |-> FALSE, message |-> <<>>]]

InitList ==
    /\ NoTemplateRun
    /\ NoCancelRun
    /\ NoProxyRun
    /\ NoUiRun
    /\ \E n \in 0..MaxRows, k \in 0..MaxRows :
          /\ k <= n
          /\ matching = [i \in 1..n |-> [id |-> i, oneOff |-> i > k]]
    /\ listing = IdleListing
    /\ fetches = 0

ListFrame ==
    UNCHANGED <<pathVars, repoVars, clientVars, previewVars, cancelVars, proxyVars,
                uiVars, matching>>

\* a fetch action is called with a 1-indexed page and a page size; it awaits
\* the backend query
ListStart(action, page, pageSize) ==
    /\ listing.pc = "idle"
    /\ fetches < MaxFetches
    /\ listing' = [IdleListing EXCEPT
                      !.pc = "query", !.action = action, !.page = page,
                      !.pageSize = pageSize,
                      !.query = [page |-> backendPage(page), size |-> pageSize]]
    /\ UNCHANGED fetches
    /\ ListFrame

\* the backend query resolves with its rows; the action returns the page
ListResolve ==
    /\ listing.pc = "query"
    /\ LET rows == backendRows(matchedBy(listing.action, matching),
                               listing.query.page, listing.query.size)
       IN  listing' = [listing EXCEPT
                          !.pc = "done", !.rows = rows,
                          !.result = paginatedResult(serialized(listing.action, rows),
                                                     listing.page, listing.pageSize)]
    /\ UNCHANGED fetches
    /\ ListFrame

\* the backend query rejects; the action throws 'Failed to fetch ...'
ListReject ==
    /\ listing.pc = "query"
    /\ listing' = [listing EXCEPT
                      !.pc = "done",
                      !.result.message =
                          <<CASE listing.action = "fetchNotifications" ->
                                   "Failed to fetch notifications: "
                              [] listing.action = "fetchPendingNotifications" ->
                                   "Failed to fetch pending notifications: "
                              [] listing.action = "fetchFutureNotifications" ->
                                   "Failed to fetch future notifications: "
                              [] OTHER -> "Failed to fetch one-off notifications: ",
                            "backend request failed">>]
    /\ UNCHANGED fetches
    /\ ListFrame

\* the caller receives the page or the error
ListReturn ==
    /\ listing.pc = "done"
    /\ listing' = IdleListing
    /\ fetches' = fetches + 1
    /\ ListFrame

SpecList ==
    InitList /\ [][\/ \E action \in {"fetchNotifications", "fetchPendingNotifications",
                                       "fetchFutureNotifications",
                                       "fetchOneOffNotifications"},
                         page \in 1..MaxPage, pageSize \in 1..MaxPageSize :
                            ListStart(action, page, pageSize)
                   \/ ListResolve
                   \/ ListReject
                   \/ ListReturn]_vars

(***************************************************************************)
(* C16                                                                     *)
(***************************************************************************)
\* a fetch action returned a page
ListReturned == listing.pc = "done" /\ listing.result.ok

\* the query matches rows that lie on a page after the returned one
MoreAfter ==
    Len(matchedBy(listing.action, matching)) > listing.page * listing.pageSize

\* C16: a page returned by fetchNotifications has hasMore true exactly when
\* the query matches notifications on a page after it, and the table's
\* Next-page button is enabled only then.
C16_HasMoreIffLaterPageHasRows ==
    (ListReturned /\ listing.action = "fetchNotifications") =>
        /\ listing.result.hasMore <=> MoreAfter
        /\ \A isLoading \in BOOLEAN :
              ~nextPageDisabled(listing.result.hasMore, isLoading) => MoreAfter

PUBLIC_ROUTES ==
    {<<"/", "s", "i", "g", "n", "-", "i", "n">>, <<"/", "s", "i", "g", "n", "-", "o", "u", "t">>,
     <<"/", "a", "u", "t", "h">>}

\* isPublicRoute of proxy
isPublicRoute(pathname) ==
    \/ \E route \in PUBLIC_ROUTES : StartsWith(pathname, route)
    \/ StartsWith(pathname, <<"/", "_", "n", "e", "x", "t">>)
    \/ StartsWith(pathname, <<"/", "p", "u", "b", "l", "i", "c">>)

\* createRouteMatcher(["/((?!sign-in|sign-out|api/auth|_next|public).*)"])
isProtectedRoute(pathname) ==
    /\ StartsWith(pathname, <<"/">>)
    /\ \A excluded \in {<<"s", "i", "g", "n", "-", "i", "n">>,
                        <<"s", "i", "g", "n", "-", "o", "u", "t">>,
                        <<"a", "p", "i", "/", "a", "u", "t", "h">>,
                        <<"_", "n", "e", "x", "t">>, <<"p", "u", "b", "l", "i", "c">>} :
          ~StartsWith(Tail(pathname), excluded)

NextResponseNext == [kind |-> "next", location |-> <<>>, message |-> <<>>]

NextResponseRedirect(location) ==
    [kind |-> "redirect", location |-> location, message |-> <<>>]

\* the response of auth0.middleware(request)
AuthRes == [kind |-> "authRes", location |-> <<>>, message |-> <<>>]

NoResponse == [kind |-> "none", location |-> <<>>, message |-> <<>>]

\* proxy(request, event): the response, or the error it throws
proxy(req) ==
    IF req.provider = "clerk"
    THEN IF isProtectedRoute(req.pathname) /\ ~req.session
         THEN NextResponseRedirect(<<"/", "s", "i", "g", "n", "-", "i", "n">>)
         ELSE NextResponseNext
    ELSE IF req.provider = "auth0"
    THEN IF StartsWith(req.pathname, <<"/", "a", "u", "t", "h">>) THEN AuthRes
         ELSE IF req.pathname = <<"/">> THEN AuthRes
         ELSE IF ~req.session
              THEN NextResponseRedirect(<<"/", "a", "u", "t", "h", "/", "l", "o", "g", "i", "n">>)
              ELSE AuthRes
    ELSE IF isPublicRoute(req.pathname) THEN NextResponseNext
    ELSE [kind |-> "throw", location |-> <<>>,
          message |-> IF req.provider = ""
                      THEN Message("AUTH_PROVIDER env var is required")
                      ELSE <<"Unsupported auth provider: ", req.provider>>]

InitProxy ==
    /\ NoTemplateRun
    /\ NoCancelRun
    /\ NoListRun
    /\ NoUiRun
    /\ proxied \in
          [provider : {"clerk", "auth0", "", "okta"},
           session : BOOLEAN,
           pathname :
           {<<"/">>,
            <<"/", "n", "o", "t", "i", "f", "i", "c", "a", "t", "i", "o", "n", "s">>,
            <<"/", "p", "r", "o", "f", "i", "l", "e">>,
            <<"/", "s", "i", "g", "n", "-", "i", "n">>,
            <<"/", "s", "i", "g", "n", "-", "o", "u", "t">>,
            <<"/", "a", "u", "t", "h", "/", "l", "o", "g", "i", "n">>,
            <<"/", "a", "u", "t", "h", "/", "c", "a", "l", "l", "b", "a", "c", "k">>,
            <<"/", "_", "n", "e", "x", "t", "/", "d", "a", "t", "a">>,
            <<"/", "p", "u", "b", "l", "i", "c", "/", "l", "o", "g", "o">>,
            <<"/", "s", "i", "g", "n", "-", "u", "p">>}]
    /\ response = NoResponse

\* the proxy answers the request
Proxy ==
    /\ response = NoResponse
    /\ response' = proxy(proxied)
    /\ UNCHANGED <<pathVars, repoVars, clientVars, previewVars, cancelVars, listVars,
                   uiVars, proxied>>

SpecProxy == InitProxy /\ [][Proxy]_vars

(***************************************************************************)
(* C18                                                                     *)
(***************************************************************************)
\* the sign-in route of the configured provider
SignInRoute ==
    IF proxied.provider = "clerk" THEN <<"/", "s", "i", "g", "n", "-", "i", "n">>
    ELSE <<"/", "a", "u", "t", "h", "/", "l", "o", "g", "i", "n">>

\* C18: under clerk and under auth0, the proxy answers a request without a
\* session to /notifications or /profile with a redirect to the sign-in
\* route, and answers a request without a session to a route under /sign-in,
\* /sign-out or /auth without a redirect.
C18_ProtectedRoutesRedirectWithoutSession ==
    (/\ response # NoResponse
     /\ proxied.provider \in {"clerk", "auth0"}
     /\ ~proxied.session) =>
        /\ proxied.pathname \in
                 {<<"/", "n", "o", "t", "i", "f", "i", "c", "a", "t", "i", "o", "n", "s">>,
                                 <<"/", "p", "r", "o", "f", "i", "l", "e">>} =>
              response = NextResponseRedirect(SignInRoute)
        /\ (\E route \in PUBLIC_ROUTES : StartsWith(proxied.pathname, route)) =>
              response.kind # "redirect"

(***************************************************************************)
(* C19                                                                     *)
(***************************************************************************)
\* the category of a classified error, read off its message
Category(message) ==
    CASE message \in {TemplateNotFound,
                      Message("Unable to resolve latest commit SHA from the main branch.")} ->
             "not-found"
      [] message = RateLimitExceeded -> "rate-limited"
      [] message = RequestForbidden -> "forbidden"
      [] OTHER -> "generic"

\* the category C19 names for a status and an x-ratelimit-remaining header
ClaimedCategory(status, remaining) ==
    CASE status = 404 -> "not-found"
      [] status = 429 -> "rate-limited"
      [] status = 403 /\ remaining = Some("0") -> "rate-limited"
      [] status = 403 /\ remaining # Some("0") -> "forbidden"
      [] OTHER -> "generic"

\* the message of the other classifier for the response the last call
\* settled on
OtherClassifierMessage ==
    IF last.request = NoRequest
    THEN buildHttpError(last.status, last.remaining, last.body)
    ELSE buildCommitLookupHttpError(last.status, last.remaining, last.body)

\* C19: for every non-success response that a content fetch or a commit
\* lookup settles on, the classifier that was used and the other classifier
\* give the category the claim names for the status and the
\* x-ratelimit-remaining header; their messages are equal for rate-limited
\* and forbidden, and for generic they are equal after the leading wording
\* (same status, same suffix).
C19_ClassifiersAgreeOnCategory ==
    SettledOnErrorResponse =>
        LET used == last.outcome.message
            other == OtherClassifierMessage
            category == ClaimedCategory(last.status, last.remaining)
        IN  /\ ~last.outcome.ok
            /\ Category(used) = category
            /\ Category(other) = category
            /\ category \in {"rate-limited", "forbidden"} => used = other
            /\ category = "generic" => Tail(used) = Tail(other) /\ used # other
            /\ category = "not-found" => used # other

\* a commit lookup answered 403 with x-ratelimit-remaining '0' was rejected
\* with the rate-limit message
C19_Witness ==
    /\ SettledCommitLookup
    /\ last.status = 403
    /\ last.remaining = Some("0")
    /\ last.outcome.message = RateLimitExceeded
    /\ OtherClassifierMessage = RateLimitExceeded

(***************************************************************************)
(* C20                                                                     *)
(***************************************************************************)
\* the last call settled on a response that the classifiers answer with the
\* generic error
SettledOnGenericError ==
    SettledOnErrorResponse /\ ~ClassifiedWithoutBody(last.status)

\* the generic message of the classifier the last call used, with the status
GenericMessage ==
    << IF last.request = NoRequest
       THEN "GitHub main branch commit lookup failed with status "
       ELSE FetchFailedPrefix,
       ToString(last.status) >>

\* C20 as claimed: on a non-success response outside 404, 403 and 429 the
\* call rejects with the generic message and the numeric status, with no
\* suffix when the body does not parse or has no message field, and with
\* ": <message>" appended whenever the body parses with a message field.
C20_MessageFieldIsAppended ==
    SettledOnGenericError =>
        /\ ~last.outcome.ok
        /\ last.outcome.message =
              GenericMessage \o
                 (IF last.body.parsed /\ last.body.message.def
                  THEN <<": ", last.body.message.val>>
                  ELSE <<>>)

\* C20 as amended: the same, with ": <message>" appended exactly when the
\* body parses with a message field that is not the empty string.
C20_NonEmptyMessageFieldIsAppended ==
    SettledOnGenericError =>
        /\ ~last.outcome.ok
        /\ last.outcome.message =
              GenericMessage \o
                 (IF last.body.parsed /\ last.body.message.def /\ last.body.message.val # ""
                  THEN <<": ", last.body.message.val>>
                  ELSE <<>>)

\* a commit lookup answered 500 with a body whose message field is the empty
\* string was rejected with the generic message and no suffix
C20_Witness ==
    /\ SettledCommitLookup
    /\ last.status = 500
    /\ last.body = MessageBody(Some(""))
    /\ last.outcome.message =
          <<"GitHub main branch commit lookup failed with status ", "500">>

(***************************************************************************)
(* C21                                                                     *)
(***************************************************************************)
\* the caller has a getTemplateContentByCommit call waiting on the network
InFlight(c) == calls[c].pc \in {"fetching", "json", "errorBody"}

\* the call of the caller resolves in this step, with content it fetched
ResolvesFetched(c) ==
    /\ InFlight(c)
    /\ calls'[c].pc = "idle"
    /\ last'.settled
    /\ last'.fetched
    /\ last'.outcome.ok

\* number of entries of the Map under the key
CountKey(m, key) == Cardinality({i \in 1..Len(m) : m[i].key = key})

\* after the call of c resolved, the cache holds one entry for its key, the
\* newest, with the content the call returned
OneEntryWithLastContent(c) ==
    /\ CountKey(cache', calls[c].cacheKey) = 1
    /\ cache'[Len(cache')] =
          [key |-> calls[c].cacheKey, value |-> last'.outcome.value]

\* both callers overlap on one request: whichever resolves first leaves one
\* entry for the key; the one that resolves second, the key being in the
\* cache by then, replaces it without adding an entry; each call returns
\* the decoded content of its own response, and no step of a waiting call
\* invokes the fetcher
OverlappingCallsLeaveOneEntry ==
    \A c, d \in Callers :
        /\ (c # d /\ InFlight(d) /\ calls[d].request = calls[c].request
                 /\ ResolvesFetched(c)) =>
              OneEntryWithLastContent(c)
        /\ (ResolvesFetched(c) /\ MapHas(cache, calls[c].cacheKey)) =>
              /\ OneEntryWithLastContent(c)
              /\ Len(cache') = Len(cache)
        /\ ResolvesFetched(c) =>
              /\ last'.outcome.value = decodeContent(last'.body.content.val)
              /\ netCalls' = netCalls
        /\ (InFlight(c) /\ InFlight(c)') => calls'[c].request = calls[c].request
        /\ (InFlight(c) /\ InFlight(d) /\ c # d) => netCalls' = netCalls

\* C21 as claimed: on any client, two overlapping calls for one request
\* leave exactly one cache entry for the key, holding the content of the
\* call that resolved last; each caller issues one network call.
C21_OverlappingCallsLeaveOneEntry == [][OverlappingCallsLeaveOneEntry]_vars

\* C21 as amended: the same on a client whose cacheMaxEntries is at least 1.
C21_OverlappingCallsLeaveOneEntryWhenCaching ==
    [][cacheMaxEntries >= 1 => OverlappingCallsLeaveOneEntry]_vars

\* two calls for one key have both fetched: the key was written twice and
\* the cache holds it once
C21_Witness ==
    /\ cacheMaxEntries >= 1
    /\ netCalls = 2
    /\ Len(hist) = 2
    /\ hist[1] = hist[2]
    /\ CountKey(cache, hist[2]) = 1
    /\ Len(cache) = 1
    /\ \A c \in Callers : calls[c].pc = "idle"

(***************************************************************************)
(* C22                                                                     *)
(***************************************************************************)
\* the keys of a Map
KeysOf(m) == {m[i].key : i \in 1..Len(m)}

\* C22: a call that resolves with fetched content for a key that is in the
\* cache removes the prior entry and appends the new one: the other entries
\* keep their order in front of it and the entry count stays the same.  And
\* in every step entries leave the cache from the front: when an entry is
\* gone after the step, every entry that was in front of it is gone too,
\* unless it is the entry of the key that the step wrote; so a re-inserted
\* key goes only after every key that was in the cache when it was written.
C22_RewrittenKeyBecomesNewest ==
    /\ [][\A c \in Callers :
            (ResolvesFetched(c) /\ MapHas(cache, calls[c].cacheKey)) =>
                /\ cache' = Append(MapDelete(cache, calls[c].cacheKey),
                                   [key |-> calls[c].cacheKey,
                                    value |-> last'.outcome.value])
                /\ Len(cache') = Len(cache)]_vars
    /\ [][\A i, j \in 1..Len(cache) :
            (i < j /\ cache[j].key \notin KeysOf(cache')) =>
                \/ cache[i].key \notin KeysOf(cache')
                \/ cache'[Len(cache')].key = cache[i].key]_vars

\* a key was written, another key after it, and the first key again by a
\* call that overlapped the first write: the first key is now the newest
C22_Witness ==
    /\ Len(hist) = 3
    /\ hist[1] = hist[3]
    /\ hist[2] # hist[1]
    /\ CacheKeys = <<hist[2], hist[3]>>

(***************************************************************************)
(* C23                                                                     *)
(***************************************************************************)
\* the call of the caller, waiting on the network, rejects in this step
RejectsFetched(c) ==
    /\ InFlight(c)
    /\ calls'[c].pc = "idle"
    /\ last'.settled
    /\ ~last'.outcome.ok

\* C23: a call that fails after it invoked the fetcher (non-success status,
\* invalid payload, rejected transport or unparsable body) leaves the cache
\* entries, their order, and the record of cache writes as they were; and a
\* call made next for the request of the failed call is not answered from
\* the cache: it invokes the fetcher again.
C23_FailureIsNeverCached ==
    /\ [][\A c \in Callers :
            RejectsFetched(c) => cache' = cache /\ hist' = hist]_vars
    /\ [][(last.settled /\ last.fetched /\ ~last.outcome.ok /\ CallStep(last.request)) =>
            /\ \E c \in Callers : MissStep(c, last.request)
            /\ netCalls' = netCalls + 1
            /\ cache' = cache]_vars

\* a call that fetched failed on an invalid payload of a success response;
\* the cache still holds the one entry, and the one write, it had before
C23_Witness ==
    /\ last.settled
    /\ last.fetched
    /\ ~last.outcome.ok
    /\ last.status = 200
    /\ last.outcome.message = InvalidResponse
    /\ netCalls = 2
    /\ Len(cache) = 1
    /\ Len(hist) = 1
    /\ ~MapHas(cache, last.cacheKey)

(***************************************************************************)
(* C24                                                                     *)
(***************************************************************************)
\* the resolved path and the commit of a request
ResolvedPair(request) ==
    << resolveTemplatePath(request.templatePath, config.templatesBasePath).value,
       request.gitCommitSha >>

\* C24: a call answered from the cache right after a call that fetched the
\* entry it reads has the resolved path and the commit of that call: the
\* content fetched for one (resolved path, commit) pair is never returned
\* for another.
C24_HitReturnsContentOfSameRequest ==
    [][\A r \in Requests :
          (/\ prev.outcome.ok
           /\ prev.fetched
           /\ HitStep(r)
           /\ last'.cacheKey =
                 buildCacheKey(config.repo, ResolvedPair(prev.request)[1],
                               prev.request.gitCommitSha)) =>
              ResolvedPair(r) = ResolvedPair(prev.request)]_vars

(***************************************************************************)
(* C25                                                                     *)
(***************************************************************************)
StoredSha == ~Falsy(notification.gitCommitSha)

FetchingContent == preview.pc \in {"contentFetch", "contentErrorBody", "contentJson"}

\* the cache key of the template the running call is fetching, at a commit
KeyAt(sha) ==
    buildCacheKey(preview.client.config.repo,
                  resolveTemplatePath(IF preview.part = "body"
                                      THEN notification.bodyTemplate
                                      ELSE notification.subjectTemplate.val,
                                      preview.client.config.templatesBasePath).value,
                  sha)

PreviewFetchesInOrderAtOneCommit ==
    /\ StoredSha =>
          /\ preview.commitLookups = 0
          /\ preview.pc \notin {"latestFetch", "latestErrorBody", "latestJson"}
          /\ FetchingContent => preview.cacheKey = KeyAt(notification.gitCommitSha.val)
          /\ preview.result.state = "success" =>
                preview.result.gitCommitSha = notification.gitCommitSha
    /\ FetchingContent =>
          /\ preview.sha.def
          /\ preview.cacheKey = KeyAt(preview.sha.val)
          /\ preview.part = "body" => ~preview.body.def /\ ~preview.subject.def
          /\ preview.part = "subject" =>
                /\ preview.body.def
                /\ ~preview.subject.def
                /\ ~Falsy(notification.subjectTemplate)
    /\ preview.pc = "render" =>
          /\ preview.body.def
          /\ preview.subject.def <=> ~Falsy(notification.subjectTemplate)

\* C25: with a stored gitCommitSha the latest commit of main is never looked
\* up, the body template and then the subject template (only when there is
\* one) are fetched at the stored commit and a success result reports it; in
\* every preview the commit does not change once the body template is asked
\* for, so body and subject are fetched at one commit.
C25_StoredShaPreviewsBodyThenSubject ==
    /\ []PreviewFetchesInOrderAtOneCommit
    /\ [][preview.part # "none" /\ preview'.pc \notin {"idle", "service"} =>
            preview'.sha = preview.sha]_vars

\* a preview of a notification with a stored commit and a subject template
\* succeeded after fetching both templates
C25_Witness ==
    /\ StoredSha
    /\ ~Falsy(notification.subjectTemplate)
    /\ preview.pc = "done"
    /\ preview.result.state = "success"
    /\ preview.contentRequests = 2
    /\ preview.commitLookups = 0

(***************************************************************************)
(* SpecQuery: fetchNotifications turns the dashboard's filters into the    *)
(* arguments of service.filterNotifications, under the capabilities the    *)
(* backend reports                                                         *)
(***************************************************************************)
\* capabilities[key]: undefined for a key the backend does not report
Capability(capabilities, key) ==
    IF key \in DOMAIN capabilities
    THEN [def |-> TRUE, val |-> capabilities[key]]
    ELSE [def |-> FALSE, val |-> FALSE]

\* a capability used as a condition
Truthy(capability) == capability.def /\ capability.val

NoStringFilter ==
    [def |-> FALSE, plain |-> FALSE, lookup |-> "", value |-> <<>>,
     caseSensitive |-> NoOption]

\* a StringFieldFilter: the plain string, or { lookup, value, caseSensitive? }
PlainString(value) ==
    [def |-> TRUE, plain |-> TRUE, lookup |-> "", value |-> value,
     caseSensitive |-> NoOption]

LookupFilter(lookup, value, caseSensitive) ==
    [def |-> TRUE, plain |-> FALSE, lookup |-> lookup, value |-> value,
     caseSensitive |-> caseSensitive]

\* caseSensitive: false
CaseInsensitive == [def |-> TRUE, val |-> 0]

\* buildStringFilter with the includes lookup used for every backend
buildStringFilterAlwaysIncludes(value, capabilities) ==
    IF Falsy(value) THEN NoStringFilter
    ELSE LookupFilter("includes", value.val,
                      IF Truthy(Capability(capabilities, "stringLookups.caseInsensitive"))
                      THEN CaseInsensitive
                      ELSE NoOption)

buildStringFilter(value, capabilities) ==
    LET supportsIncludes == Capability(capabilities, "stringLookups.includes")
        supportsCaseInsensitive ==
            Capability(capabilities, "stringLookups.caseInsensitive")
    IN  IF Falsy(value) THEN NoStringFilter
        ELSE IF Truthy(supportsIncludes)
             THEN LookupFilter("includes", value.val,
                               IF Truthy(supportsCaseInsensitive)
                               THEN CaseInsensitive
                               ELSE NoOption)
        ELSE IF Truthy(supportsCaseInsensitive)
             THEN LookupFilter("exact", value.val, CaseInsensitive)
        ELSE PlainString(value.val)

\* new Date(text)
DateOf(text) == [date |-> text]

\* { from?, to? } of a date range, absent when neither bound is given
dateRange(from, to) ==
    IF Falsy(from) /\ Falsy(to)
    THEN [def |-> FALSE, from |-> Undefined, to |-> Undefined]
    ELSE [def |-> TRUE,
          from |-> IF Falsy(from) THEN Undefined ELSE Some(DateOf(from.val)),
          to |-> IF Falsy(to) THEN Undefined ELSE Some(DateOf(to.val))]

\* if (filters.x) filter.x = filters.x
copiedWhenSet(value) == IF Falsy(value) THEN Undefined ELSE value

buildBackendFilter(filters, capabilities) ==
    [status |-> copiedWhenSet(filters.status),
     notificationType |-> copiedWhenSet(filters.notificationType),
     adapterUsed |-> copiedWhenSet(filters.adapterUsed),
     userId |-> copiedWhenSet(filters.userId),
     bodyTemplate |-> buildStringFilter(filters.bodyTemplate, capabilities),
     subjectTemplate |-> buildStringFilter(filters.subjectTemplate, capabilities),
     contextName |-> buildStringFilter(filters.contextName, capabilities),
     createdAtRange |-> dateRange(filters.createdAtFrom, filters.createdAtTo),
     sentAtRange |-> dateRange(filters.sentAtFrom, filters.sentAtTo)]

NoOrderBy == [def |-> FALSE, field |-> "", direction |-> ""]

\* a ?? b
Nullish(a, b) == IF a.def THEN a.val ELSE b

buildOrderBy(filters, capabilities) ==
    LET field == Nullish(filters.orderByField, "createdAt")
        direction == Nullish(filters.orderByDirection, "desc")
        capability == Capability(capabilities, "orderBy." \o field)
    IN  IF capability.def /\ capability.val = FALSE
        THEN NoOrderBy
        ELSE [def |-> TRUE, field |-> field, direction |-> direction]

CapabilityKeys ==
    {"stringLookups.includes", "stringLookups.caseInsensitive",
     "orderBy.createdAt", "orderBy.sentAt"}

Capabilities == UNION {[keys -> BOOLEAN] : keys \in SUBSET CapabilityKeys}

Filters ==
    [status : {Some(<<"S">>)},
     notificationType : {Undefined},
     adapterUsed : {Some(<<>>)},
     userId : {Some(<<"u">>)},
     bodyTemplate : {Undefined, Some(<<>>), Some(<<"a">>)},
     subjectTemplate : {Undefined, Some(<<"b">>)},
     contextName : {Some(<<>>), Some(<<"c">>)},
     createdAtFrom : {Some(<<"d">>)},
     createdAtTo : {Undefined},
     sentAtFrom : {Undefined},
     sentAtTo : {Undefined, Some(<<"e">>)},
     orderByField : {Absent, Some("createdAt"), Some("sentAt")},
     orderByDirection : {Absent, Some("asc")}]

NotCalled == <<>>

InitQuery ==
    /\ NoTemplateRun
    /\ NoCancelRun
    /\ NoListRun
    /\ NoProxyRun
    /\ NoPageRun
    /\ NoDebounceRun
    /\ queryIn \in [filters : Filters, capabilities : Capabilities]
    /\ queryOut = NotCalled

\* fetchNotifications, lines 156-184: the capabilities resolve, the backend
\* filter and the ordering are built and service.filterNotifications is called
FilterNotificationsCall ==
    /\ queryOut = NotCalled
    /\ queryOut' = [backendFilter |->
                        buildBackendFilter(queryIn.filters, queryIn.capabilities),
                    orderBy |-> buildOrderBy(queryIn.filters, queryIn.capabilities)]
    /\ UNCHANGED <<pathVars, repoVars, clientVars, previewVars, cancelVars, listVars,
                   proxyVars, pageVars, debounceVars, queryIn>>

SpecQuery == InitQuery /\ [][FilterNotificationsCall]_vars

(***************************************************************************)
(* C26                                                                     *)
(***************************************************************************)
Called == queryOut # NotCalled

StringFilterFields == {"bodyTemplate", "subjectTemplate", "contextName"}

OnlySupportedLookups(value, built) ==
    LET includes == Truthy(Capability(queryIn.capabilities, "stringLookups.includes"))
        caseInsensitive ==
            Truthy(Capability(queryIn.capabilities, "stringLookups.caseInsensitive"))
    IN  /\ Falsy(value) <=> ~built.def
        /\ built.def =>
              /\ built.value = value.val
              /\ built.lookup = "includes" => includes
              /\ built.caseSensitive = CaseInsensitive => caseInsensitive
              /\ (~includes /\ ~caseInsensitive) => built = PlainString(value.val)

\* C26: for every combination of reported capabilities, the filter built for
\* bodyTemplate, subjectTemplate and contextName uses the includes lookup
\* only when stringLookups.includes is reported, sets caseSensitive: false
\* only when stringLookups.caseInsensitive is reported, is the plain string
\* when neither is reported, and is absent for an empty or absent value.
C26_StringFiltersUseSupportedLookups ==
    Called =>
        \A f \in StringFilterFields :
            OnlySupportedLookups(queryIn.filters[f], queryOut.backendFilter[f])

\* a backend reporting neither lookup was sent a plain string, and a filter
\* with an empty value was left out
C26_Witness ==
    /\ Called
    /\ ~Truthy(Capability(queryIn.capabilities, "stringLookups.includes"))
    /\ ~Truthy(Capability(queryIn.capabilities, "stringLookups.caseInsensitive"))
    /\ queryOut.backendFilter.bodyTemplate = PlainString(<<"a">>)
    /\ queryIn.filters.contextName = Some(<<>>)
    /\ ~queryOut.backendFilter.contextName.def

(***************************************************************************)
(* C27                                                                     *)
(***************************************************************************)
\* C27: the orderBy passed to filterNotifications is {field, direction} with
\* the defaults createdAt and desc, and it is undefined whenever the
\* capability orderBy.<field> is not reported as supported.
C27_OrderByOnlySupportedFields ==
    Called =>
        LET field == Nullish(queryIn.filters.orderByField, "createdAt")
            direction == Nullish(queryIn.filters.orderByDirection, "desc")
        IN  IF Truthy(Capability(queryIn.capabilities, "orderBy." \o field))
            THEN queryOut.orderBy =
                    [def |-> TRUE, field |-> field, direction |-> direction]
            ELSE queryOut.orderBy = NoOrderBy

(***************************************************************************)
(* SpecPage: NotificationsPageClient under filter, sorting and pagination  *)
(* changes, resends and cancellations, with the server action calls        *)
(* settling in any order                                                   *)
(***************************************************************************)
\* URLSearchParams.get: null for a missing param
ParamGet(params, key) ==
    IF key \in DOMAIN params THEN Some(params[key]) ELSE Absent

\* URLSearchParams.set
ParamSet(params, key, value) ==
    [k \in DOMAIN params \cup {key} |-> IF k = key THEN value ELSE params[k]]

\* URLSearchParams.delete
ParamDelete(params, key) == [k \in DOMAIN params \ {key} |-> params[k]]

filterKeys ==
    <<"status", "notificationType", "adapterUsed", "userId",
      "bodyTemplate", "subjectTemplate", "contextName",
      "createdAtFrom", "createdAtTo", "sentAtFrom", "sentAtTo">>

sortableFields == {"sendAfter", "sentAt", "readAt", "createdAt", "updatedAt"}

\* buildFiltersFromParams: params.get(key) ?? undefined for the thirteen fields
buildFiltersFromParams(params) ==
    [key \in {filterKeys[i] : i \in 1..Len(filterKeys)}
              \cup {"orderByField", "orderByDirection"} |-> ParamGet(params, key)]

\* the loop of handleFiltersChange over the first n filter keys
RECURSIVE syncFilterParams(_, _, _)
syncFilterParams(params, newFilters, n) ==
    IF n = 0 THEN params
    ELSE LET synced == syncFilterParams(params, newFilters, n - 1)
             key == filterKeys[n]
         IN  IF key \in DOMAIN newFilters /\ newFilters[key] # ""
             THEN ParamSet(synced, key, newFilters[key])
             ELSE ParamDelete(synced, key)

\* handleFiltersChange without params.set('page', '1')
filterParamsKeepingPage(params, newFilters) ==
    syncFilterParams(params, newFilters, Len(filterKeys))

\* the params handleFiltersChange replaces the URL with
filterParams(params, newFilters) ==
    ParamSet(syncFilterParams(params, newFilters, Len(filterKeys)), "page", "1")

\* the params handleSortingChange replaces the URL with
sortingParams(params, sorting) ==
    ParamSet(
        IF sorting # <<>> /\ sorting[1].id \in sortableFields
        THEN ParamSet(ParamSet(params, "orderByField", sorting[1].id),
                      "orderByDirection", IF sorting[1].desc THEN "desc" ELSE "asc")
        ELSE ParamDelete(ParamDelete(params, "orderByField"), "orderByDirection"),
        "page", "1")

\* the params handlePaginationChange replaces the URL with
paginationParams(params, newPage) == ParamSet(params, "page", ToString(newPage))

\* what a fetchNotifications call resolves with: the rows of its query, and
\* the page and page size it was called with
fetchResult(call) ==
    [page |-> call.page, pageSize |-> call.pageSize,
     rows |-> [filters |-> call.filters, page |-> call.page]]

FetchCall(kind, filters, page, pageSize) ==
    [action |-> "fetchNotifications", id |-> issued + 1, kind |-> kind,
     filters |-> filters, page |-> page, pageSize |-> pageSize]

\* handleCancelConfirm awaiting cancelNotification, with the search params and
\* the page of the render it was created in
CancelCall ==
    [action |-> "cancelNotification", id |-> issued + 1, kind |-> "cancel",
     filters |-> buildFiltersFromParams(searchParams), page |-> pageData.page,
     pageSize |-> pageData.pageSize]

\* isPending of useTransition: a transition's call has not settled
isPending ==
    \E call \in inFlight :
        call.action = "fetchNotifications" /\ call.kind # "cancel"

NoCall ==
    [action |-> "none", id |-> 0, kind |-> "none", filters |-> <<>>, page |-> 0,
     pageSize |-> 0]

NewFilters ==
    { [key \in {} |-> ""],
      [key \in {"status"} |-> "SENT"],
      [key \in {"status", "bodyTemplate"} |-> IF key = "status" THEN "" ELSE "a"] }

Sortings ==
    { <<>>, <<[id |-> "sentAt", desc |-> TRUE]>>, <<[id |-> "createdAt", desc |-> FALSE]>>,
      <<[id |-> "status", desc |-> FALSE]>> }

InitialParams ==
    { [key \in {} |-> ""],
      [key \in {"status", "orderByField", "page"} |->
          CASE key = "status" -> "FAILED"
            [] key = "orderByField" -> "readAt"
            [] OTHER -> "2"] }

InitPage ==
    /\ NoTemplateRun
    /\ NoCancelRun
    /\ NoListRun
    /\ NoProxyRun
    /\ NoQueryRun
    /\ NoDebounceRun
    /\ searchParams \in InitialParams
    /\ pageData = fetchResult([filters |-> buildFiltersFromParams(searchParams),
                               page |-> IF "page" \in DOMAIN searchParams THEN 2 ELSE 1,
                               pageSize |-> MaxPageSize])
    /\ inFlight = {}
    /\ issued = 0
    /\ latest = NoCall
    /\ failed = FALSE

PageFrame ==
    UNCHANGED <<pathVars, repoVars, clientVars, previewVars, cancelVars, listVars,
                proxyVars, queryVars, debounceVars>>

\* a handler replaces the URL and calls fetchNotifications
Issue(params, call) ==
    /\ searchParams' = params
    /\ inFlight' = inFlight \cup {call}
    /\ issued' = issued + 1
    /\ latest' = call
    /\ UNCHANGED <<pageData, failed>>
    /\ PageFrame

\* handleFiltersChange (lines 179-219), up to the await
FiltersChange(newFilters) ==
    /\ issued < MaxRequests
    /\ LET params == filterParams(searchParams, newFilters)
       IN  Issue(params,
                 FetchCall("filters", buildFiltersFromParams(params), 1,
                           pageData.pageSize))

\* handlePaginationChange (lines 225-245), up to the await; the Previous and
\* Next buttons are disabled while isLoading
PaginationChange(newPage) ==
    /\ issued < MaxRequests
    /\ ~isPending
    /\ newPage \in {pageData.page - 1, pageData.page + 1}
    /\ LET params == paginationParams(searchParams, newPage)
       IN  Issue(params,
                 FetchCall("pagination", buildFiltersFromParams(params), newPage,
                           pageData.pageSize))

\* handleSortingChange (lines 247-295), up to the await
SortingChange(sorting) ==
    /\ issued < MaxRequests
    /\ LET params == sortingParams(searchParams, sorting)
       IN  Issue(params,
                 FetchCall("sorting", buildFiltersFromParams(params), 1,
                           pageData.pageSize))

\* handleResent (lines 163-173), up to the await
Resent ==
    /\ issued < MaxRequests
    /\ Issue(searchParams,
             FetchCall("resent", buildFiltersFromParams(searchParams), pageData.page,
                       pageData.pageSize))

\* handleCancelConfirm (lines 139-140): cancelNotification is awaited
CancelConfirm ==
    /\ issued < MaxRequests
    /\ inFlight' = inFlight \cup {CancelCall}
    /\ issued' = issued + 1
    /\ UNCHANGED <<searchParams, pageData, latest, failed>>
    /\ PageFrame

\* cancelNotification resolves with success (lines 147-153): the page is
\* fetched again with the filters and the page of the handler's render
CancelSucceed(call) ==
    /\ call \in inFlight
    /\ call.action = "cancelNotification"
    /\ LET refresh == [call EXCEPT !.action = "fetchNotifications"]
       IN  /\ inFlight' = (inFlight \ {call}) \cup {refresh}
           /\ latest' = refresh
    /\ UNCHANGED <<searchParams, pageData, issued, failed>>
    /\ PageFrame

\* cancelNotification resolves with a failure (lines 142-145)
CancelFail(call) ==
    /\ call \in inFlight
    /\ call.action = "cancelNotification"
    /\ inFlight' = inFlight \ {call}
    /\ failed' = TRUE
    /\ UNCHANGED <<searchParams, pageData, issued, latest>>
    /\ PageFrame

\* fetchNotifications resolves: setData(result)
PageFetchResolve(call) ==
    /\ call \in inFlight
    /\ call.action = "fetchNotifications"
    /\ inFlight' = inFlight \ {call}
    /\ pageData' = fetchResult(call)
    /\ UNCHANGED <<searchParams, issued, latest, failed>>
    /\ PageFrame

\* fetchNotifications rejects: the error is logged or thrown again
PageFetchReject(call) ==
    /\ call \in inFlight
    /\ call.action = "fetchNotifications"
    /\ inFlight' = inFlight \ {call}
    /\ failed' = TRUE
    /\ UNCHANGED <<searchParams, pageData, issued, latest>>
    /\ PageFrame

\* the call with an id that has not settled, NoCall when it has
CallOf(id) ==
    IF \E call \in inFlight : call.id = id
    THEN CHOOSE call \in inFlight : call.id = id
    ELSE NoCall

NextPage ==
    \/ \E newFilters \in NewFilters : FiltersChange(newFilters)
    \/ \E newPage \in 1..MaxPage : PaginationChange(newPage)
    \/ \E sorting \in Sortings : SortingChange(sorting)
    \/ Resent
    \/ CancelConfirm
    \/ \E id \in 1..MaxRequests : CancelSucceed(CallOf(id))
    \/ \E id \in 1..MaxRequests : CancelFail(CallOf(id))
    \/ \E id \in 1..MaxRequests : PageFetchResolve(CallOf(id))
    \/ \E id \in 1..MaxRequests : PageFetchReject(CallOf(id))

SpecPage == InitPage /\ [][NextPage]_vars

(***************************************************************************)
(* C28                                                                     *)
(***************************************************************************)
\* the step runs a handler of the given kind up to its fetchNotifications call
HandlerStep(kind) ==
    /\ issued' = issued + 1
    /\ latest'.id = issued'
    /\ latest'.kind = kind

\* C28: a filter change and a sorting change set the URL param page to '1'
\* and fetch page 1; a pagination change leaves every other URL param as it
\* was, sets page to the new page and fetches that page with the filters and
\* the ordering of the URL.
C28_FilterAndSortResetPage ==
    [][/\ (HandlerStep("filters") \/ HandlerStep("sorting")) =>
             /\ ParamGet(searchParams', "page") = Some("1")
             /\ latest'.page = 1
             /\ latest'.filters = buildFiltersFromParams(searchParams')
       /\ HandlerStep("pagination") =>
             /\ ParamDelete(searchParams', "page") = ParamDelete(searchParams, "page")
             /\ ParamGet(searchParams', "page") = Some(ToString(latest'.page))
             /\ latest'.filters = buildFiltersFromParams(searchParams)
             /\ latest'.page \in {pageData.page - 1, pageData.page + 1}]_vars

\* page 2 is displayed and a filter change has replaced the URL's page with 1
\* and is fetching page 1
C28_Witness ==
    /\ latest.kind = "filters"
    /\ inFlight = {latest}
    /\ pageData.page = 2
    /\ ParamGet(searchParams, "page") = Some("1")
    /\ ParamGet(searchParams, "orderByField") = Some("readAt")
    /\ latest.page = 1

(***************************************************************************)
(* C29                                                                     *)
(***************************************************************************)
\* every call has resolved, and a fetch was made
AllResolved ==
    /\ inFlight = {}
    /\ ~failed
    /\ latest # NoCall

\* C29: once all calls have resolved, the displayed data is the result of
\* the fetch that was issued last and agrees with the URL search params.
C29_LatestRequestIsDisplayed ==
    AllResolved =>
        /\ pageData = fetchResult(latest)
        /\ Some(ToString(pageData.page)) =
              (IF "page" \in DOMAIN searchParams
               THEN ParamGet(searchParams, "page")
               ELSE Some("1"))
        /\ pageData.rows.filters = buildFiltersFromParams(searchParams)

(***************************************************************************)
(* SpecDebounce: the filter bar NotificationsFilters under text, select    *)
(* and date-range changes, with its 300 ms debounce timer                  *)
(***************************************************************************)
\* Date.prototype.toISOString of a day
toISOString(day) == day \o "T00:00:00.000Z"

NoRange == [def |-> FALSE, from |-> Absent, to |-> Absent]

DateRange(from, to) == [def |-> TRUE, from |-> from, to |-> to]

\* collectFilters: the fields that are set, as a NotificationFilters object
collectFilters(state) ==
    LET textKeys == {"adapterUsed", "userId", "bodyTemplate", "subjectTemplate",
                     "contextName"}
        set == {k \in {"status", "notificationType"} : state[k] # "all"}
               \cup {k \in textKeys : state[k] # ""}
               \cup (IF state.createdAtRange.def /\ state.createdAtRange.from.def
                     THEN {"createdAtFrom"} ELSE {})
               \cup (IF state.createdAtRange.def /\ state.createdAtRange.to.def
                     THEN {"createdAtTo"} ELSE {})
               \cup (IF state.sentAtRange.def /\ state.sentAtRange.from.def
                     THEN {"sentAtFrom"} ELSE {})
               \cup (IF state.sentAtRange.def /\ state.sentAtRange.to.def
                     THEN {"sentAtTo"} ELSE {})
    IN  [k \in set |->
            CASE k = "createdAtFrom" -> toISOString(state.createdAtRange.from.val)
              [] k = "createdAtTo" -> toISOString(state.createdAtRange.to.val)
              [] k = "sentAtFrom" -> toISOString(state.sentAtRange.from.val)
              [] k = "sentAtTo" -> toISOString(state.sentAtRange.to.val)
              [] OTHER -> state[k]]

\* clearTimeout(debounceTimerRef.current)
clearTimeout(set, ref) == {timer \in set : timer.id # ref}

\* debouncedFire without the clearTimeout of the pending timer
debouncedFireWithoutClear(set, ref, timer) == set \cup {timer}

\* debouncedFire: the pending timer is cleared and a new one is set
debouncedFire(set, ref, timer) == clearTimeout(set, ref) \cup {timer}

TextValues == {"", "a", "ab"}

DateRanges == {NoRange, DateRange(Some("2024-01-01"), Some("2024-01-02"))}

InitDebounce ==
    /\ NoTemplateRun
    /\ NoCancelRun
    /\ NoListRun
    /\ NoProxyRun
    /\ NoQueryRun
    /\ NoPageRun
    /\ \E status \in {"all", "FAILED"} :
          filterState =
              [status |-> status, notificationType |-> "all", adapterUsed |-> "",
               userId |-> "", bodyTemplate |-> "", subjectTemplate |-> "",
               contextName |-> "c", createdAtRange |-> NoRange,
               sentAtRange |-> NoRange]
    /\ timers = {}
    /\ debounceTimerRef = 0
    /\ delivered = <<>>
    /\ changes = 0
    /\ lastEvent = "none"

DebounceFrame ==
    UNCHANGED <<pathVars, repoVars, clientVars, previewVars, cancelVars, listVars,
                proxyVars, queryVars, pageVars>>

\* handleTextChange (lines 168-171): the setter runs and debouncedFire sets a
\* timer that will deliver the state of this render with the new value
TextChange(key, value) ==
    /\ changes < MaxChanges
    /\ filterState[key] # value
    /\ filterState' = [filterState EXCEPT ![key] = value]
    /\ timers' = debouncedFire(timers, debounceTimerRef,
                               [id |-> changes + 1,
                                filters |->
                                    collectFilters([filterState EXCEPT ![key] = value])])
    /\ debounceTimerRef' = changes + 1
    /\ changes' = changes + 1
    /\ lastEvent' = "text"
    /\ UNCHANGED delivered
    /\ DebounceFrame

\* a select or a date-range change (lines 189-192, 323-338): the setter runs
\* and fireImmediately clears the pending timer and calls onFiltersChange
ImmediateChange(key, value) ==
    /\ changes < MaxChanges
    /\ filterState[key] # value
    /\ filterState' = [filterState EXCEPT ![key] = value]
    /\ timers' = clearTimeout(timers, debounceTimerRef)
    /\ delivered' =
          Append(delivered, collectFilters([filterState EXCEPT ![key] = value]))
    /\ changes' = changes + 1
    /\ lastEvent' = "immediate"
    /\ UNCHANGED debounceTimerRef
    /\ DebounceFrame

\* a timer that was not cleared fires after 300 ms (lines 148-163)
DebounceFire(id) ==
    /\ \E timer \in timers : timer.id = id
    /\ LET timer == CHOOSE t \in timers : t.id = id
       IN  /\ timers' = timers \ {timer}
           /\ delivered' = Append(delivered, timer.filters)
    /\ lastEvent' = "timer"
    /\ UNCHANGED <<filterState, debounceTimerRef, changes>>
    /\ DebounceFrame

NextDebounce ==
    \/ \E value \in TextValues : TextChange("userId", value)
    \/ \E value \in {"", "t"} : TextChange("bodyTemplate", value)
    \/ \E value \in {"all", "SENT"} : ImmediateChange("status", value)
    \/ \E value \in DateRanges : ImmediateChange("createdAtRange", value)
    \/ \E id \in 1..MaxChanges : DebounceFire(id)

\* a timeout that is set and not cleared fires
SpecDebounce ==
    InitDebounce /\ [][NextDebounce]_vars
                 /\ \A id \in 1..MaxChanges : WF_vars(DebounceFire(id))

(***************************************************************************)
(* C30                                                                     *)
(***************************************************************************)
\* C30: a text change makes no onFiltersChange call and leaves exactly one
\* timer pending; the timer that fires makes one call carrying the text of
\* the last change and all other active filters and leaves no timer pending;
\* a select or date-range change makes its call at once and leaves no timer
\* pending; a pending timer fires or is cleared by a later change.
C30_DebounceDeliversFinalFilters ==
    /\ [](Cardinality(timers) <= 1)
    /\ [][/\ (lastEvent' = "text" /\ changes' = changes + 1) =>
                /\ delivered' = delivered
                /\ Cardinality(timers') = 1
          /\ (lastEvent' = "timer" /\ delivered' # delivered) =>
                /\ delivered' = Append(delivered, collectFilters(filterState))
                /\ timers' = {}
          /\ (lastEvent' = "immediate" /\ changes' = changes + 1) =>
                /\ delivered' = Append(delivered, collectFilters(filterState'))
                /\ timers' = {}]_vars
    /\ (timers # {}) ~> (timers = {})

\* a burst of two text changes was answered by one call, with the final text
\* and the status filter that was active
C30_Witness ==
    /\ changes = 2
    /\ lastEvent = "timer"
    /\ filterState.userId = "ab"
    /\ filterState.status = "FAILED"
    /\ timers = {}
    /\ delivered = <<[k \in {"status", "userId", "contextName"} |->
                        CASE k = "status" -> "FAILED"
                          [] k = "userId" -> "ab"
                          [] OTHER -> "c"]>>

====
